---- MODULE Spec2Model ----
(***************************************************************************)
(* Model of the bxilog core (src/misc/doc/bxilog/bxilog-fsm.dot, the C     *)
(* source that follows the FSM graph): the lifecycle state machine         *)
(* (bxilog_init / bxilog_finalize / fork handlers), the producer side      *)
(* (bxilog_vlog_nolevelcheck, bxilog_flush), the internal handler thread   *)
(* (_iht_main, _process_data, _process_ctrl_msg, _flush_iht) and the       *)
(* channels between them.                                                  *)
(*                                                                         *)
(* Business-code threads are sequential programs with a program counter    *)
(* pc[t]; each action is one atomic step of the C code between two points  *)
(* where another thread can observe or change shared state.                *)
(***************************************************************************)
EXTENDS Integers, Sequences, FiniteSets, TLC

\* ------------------------------------------------------------------ bounds
NThreads == 2
MaxOps == 3
MaxMsgLen == 2
MaxQueue == 2
MaxFaults == 1
MaxRecs == 3
MaxRules == 3
MaxRegOps == 5
MaxChain == 2
MaxPath == 3
MaxErrs == 6       \* failing system calls injected where the error chain is followed

\* ------------------------------------------------------- program constants
MAX_DEPTH_ERR == 5

Threads == 1..NThreads
NL == "\n"
Chars == {"a", NL}
Msgs == UNION {[1..k -> Chars] : k \in 0..MaxMsgLen}
LogLevels == {"info"}

States == {"UNSET", "INITIALIZING", "INITIALIZED", "FINALIZING", "FINALIZED",
           "ILLEGAL", "FORKED"}

VARIABLES
  State,                    \* static bxilog_state_e STATE
  BXILOG_CONTEXT,           \* TRUE iff the zmq context pointer is non-NULL
  BXILOG_INITIALIZED_MUTEX, \* 0 when free, else the thread that holds it
  ATFORK_ONCE,              \* TRUE once pthread_atfork() handlers are installed
  TSD_KEY_ONCE,             \* TRUE once the current TSD_KEY has been created
  iht,                      \* INTERNAL_HANDLER_THREAD: none/created/polling/flushing/quitting/exited
  ihtErr,                   \* depth of the error chain `err` of _iht_main
  ihtCmd,                   \* control request the handler is serving while flushing
  pipes,                    \* data channel: one FIFO pipe per producer socket
  ctlReq,                   \* control channel: request in flight per producer
  ctlRep,                   \* control channel: reply in flight per producer
  sink,                     \* lines written to IHT_DATA.fd
  errOut,                   \* what _log_single_line wrote to STDERR_FILENO
  warned,                   \* TRUE once _should_quit printed its warning
  pc,                       \* position of each business-code thread
  via,                      \* who called _init/_finalize: "api" or "fork"
  cur,                      \* arguments of the log call in progress
  lerr,                     \* depth of the local error chain `err` of _finalize
  tsd,                      \* per-thread data under the current key: none/live/freed
  stale,                    \* thread holds a freed tsd under a retired key
  seq,                      \* number of records each thread has enqueued
  base,                     \* value of seq when the current context was created
  sent,                     \* history: the records each thread enqueued
  ret,                      \* history: last API call of each thread and its outcome
  nExit,                    \* history: number of exit? requests sent
  proc,                     \* the process: running / exited / aborted
  child,                    \* the process created by the last fork()
  ops,                      \* number of API calls made so far (bounded by MaxOps)
  faults,                   \* failing system calls the environment may still inject
  REGISTERED_LOGGERS,       \* the array of registered loggers (0: a NULL slot)
  REGISTERED_LOGGERS_NB,    \* static size_t REGISTERED_LOGGERS_NB
  logLevel,                 \* logger->level of every logger
  regHist,                  \* history: the last registry call and what it found
  FATAL_ERROR_IN_PROGRESS,  \* volatile sig_atomic_t FATAL_ERROR_IN_PROGRESS
  sfd,                      \* the handler's signalfd: none/pending/read/raised
  synced,                   \* sink lines covered by the last fdatasync that succeeded
  ctlBusy,                  \* the thread's REQ socket has sent a request and awaits its reply
  register_lock,            \* 0 when free, else the thread that locked it
  filename,                 \* the file name of the frame _process_data has taken
  FILENAME,                 \* the sink bxilog_init was given: "-", "+" or a path
  closedFds,                \* the standard descriptors that have been closed
  msg                       \* char msg[size] of _log_single_line and what went into it

vars == <<State, BXILOG_CONTEXT, BXILOG_INITIALIZED_MUTEX, ATFORK_ONCE,
          TSD_KEY_ONCE, iht, ihtErr, ihtCmd, pipes, ctlReq, ctlRep, sink,
          errOut, warned, pc, via, cur, lerr, tsd, stale, seq, base, sent, ret,
          nExit, proc, child, ops, faults, REGISTERED_LOGGERS,
          REGISTERED_LOGGERS_NB, logLevel, regHist, FATAL_ERROR_IN_PROGRESS,
          sfd, synced, ctlBusy, register_lock, filename, FILENAME,
          closedFds, msg>>

fdVars == <<FILENAME, closedFds, msg>>

regVars == <<REGISTERED_LOGGERS, REGISTERED_LOGGERS_NB, logLevel, regHist,
             register_lock, filename, fdVars>>
sigVars == <<FATAL_ERROR_IN_PROGRESS, sfd, synced>>
coreVars == <<State, BXILOG_CONTEXT, BXILOG_INITIALIZED_MUTEX, ATFORK_ONCE,
              TSD_KEY_ONCE, iht, ihtErr, ihtCmd, pipes, ctlReq, ctlRep, sink,
              errOut, warned, pc, via, cur, lerr, tsd, stale, ctlBusy, seq, base,
              sent, ret, nExit, child, faults>>
lifecycleVars == <<State, BXILOG_CONTEXT, BXILOG_INITIALIZED_MUTEX,
                   ATFORK_ONCE, TSD_KEY_ONCE>>
ihtVars == <<iht, ihtErr, ihtCmd>>
chanVars == <<pipes, ctlReq, ctlRep>>
outVars == <<sink, errOut, warned>>
tsdVars == <<tsd, stale, ctlBusy>>
histVars == <<seq, base, sent>>

\* ------------------------------------------------------------ pure helpers

\* variant: initialisation also starts from INITIALIZED
MutCanInit(s) == s \in {"UNSET", "FINALIZED", "INITIALIZED"}

\* bxilog_init / _init: the states from which initialisation may start
CanInit(s) == s \in {"UNSET", "FINALIZED"}

\* variant: finalisation also starts from FINALIZING
MutCanFinalize(s) == s \in {"INITIALIZED", "FINALIZING"}

\* bxilog_finalize / _finalize: the state from which finalisation may start
CanFinalize(s) == s = "INITIALIZED"

\* variant: log calls also act while FINALIZED
MutIsInitialized(s) == s \in {"INITIALIZED", "FINALIZED"}

\* bxilog_vlog_nolevelcheck and bxilog_flush act only in this state
IsInitialized(s) == s = "INITIALIZED"

\* variant: the entry check sets ILLEGAL when it rejects
MutEntryRejectState(s) == "ILLEGAL"

\* What the entry check of bxilog_init / bxilog_finalize leaves in State when
\* it rejects the call: it returns the error without assigning State.
EntryRejectState(s) == s

\* What _init / _finalize leave in State when their own check rejects the call
InnerRejectState(s) == "ILLEGAL"

\* _parent_before_fork: the states in which forking terminates the process
ForkForbidden(s) == s \in {"INITIALIZING", "FINALIZING"}

\* variant: the loop is left one error earlier
Mutshould_quit(depth) == depth >= MAX_DEPTH_ERR

\* _should_quit, line 1533: more than MAX_DEPTH_ERR chained errors end the
\* handler loop
should_quit(depth) == depth > MAX_DEPTH_ERR

\* variant: the message is written as one line, newlines included
MutCutLines(logmsg, s, next, len) ==
  << [text |-> logmsg, len |-> Len(logmsg)] >>

\* _process_data, the loop that cuts logmsg into lines.  `s` is the start of
\* the current line, `next` the scanning position (1-based) and `len` the
\* length handed to _log_single_line.  Reaching Len(logmsg)+1 is reading the
\* terminating NUL.
RECURSIVE CutLines(_, _, _, _)
CutLines(logmsg, s, next, len) ==
  IF next > Len(logmsg)
  THEN << [text |-> SubSeq(logmsg, s, next - 1), len |-> len] >>
  ELSE IF logmsg[next] = NL
       THEN << [text |-> SubSeq(logmsg, s, next - 1), len |-> len] >>
            \o CutLines(logmsg, next + 1, next + 1, 1)
       ELSE CutLines(logmsg, s, next + 1, len + 1)

\* _log_single_line / _mkmsg: one output line carries the header fields of
\* the record and one segment of its message
Render(rec, seg) ==
  [level |-> rec.level, tid |-> rec.tid, seqno |-> rec.seqno,
   text |-> seg.text, whole |-> TRUE]

LinesOf(rec) ==
  LET segs == CutLines(rec.msg, 1, 1, 0)
  IN [i \in 1..Len(segs) |-> Render(rec, segs[i])]

\* _log_single_line: write() of line number f (0: none) suffers `kind`.
\* A failed write (written <= 0) sends a note and the line to stderr; a short
\* write leaves a truncated line in the sink and nothing else.
RECURSIVE ToSink(_, _, _, _)
ToSink(lines, i, f, kind) ==
  IF i > Len(lines) THEN << >>
  ELSE (IF i # f THEN << lines[i] >>
        ELSE IF kind = "short" THEN << [lines[i] EXCEPT !.whole = FALSE] >>
        ELSE << >>) \o ToSink(lines, i + 1, f, kind)

ToStderr(lines, f, kind) ==
  IF f # 0 /\ kind = "fail" THEN << "note", lines[f] >> ELSE << >>

\* _log_single_line, lines 1217-1226, when every write to the sink fails: the
\* note and the line go to standard error for each line
RECURSIVE AllToStderr(_, _)
AllToStderr(lines, i) ==
  IF i > Len(lines) THEN << >>
  ELSE << "note", lines[i] >> \o AllToStderr(lines, i + 1)

\* variant: the frame joins the head of the pipe
MutEnqueue(q, rec) == << rec >> \o q

\* bxizmq_snd_data_zc on the thread's PUSH socket: the frame joins the tail
\* of the thread's pipe
Enqueue(q, rec) == Append(q, rec)

\* zmq_msg_recv on the PULL socket: the oldest frame of a pipe
Dequeue(q) == Head(q)

\* Outcomes the environment may give a fallible system call
Outcomes == IF faults > 0 THEN {"ok", "fail"} ELSE {"ok"}
WriteKinds == {"short", "fail"}

NoCmd == [cmd |-> "none", from |-> 0]

\* what a caller can observe of the library around an API call
Snap(t) == [st |-> State, iht |-> iht, ctx |-> BXILOG_CONTEXT,
            exits |-> nExit, tsd |-> tsd[t], seq |-> seq[t],
            lines |-> Len(sink)]

NoSnap == [st |-> "UNSET", iht |-> "none", ctx |-> FALSE, exits |-> 0,
           tsd |-> "none", seq |-> 0, lines |-> 0]

NoRet == [op |-> "none", res |-> "none", pre |-> NoSnap, post |-> NoSnap,
          mark |-> [t \in Threads |-> 0], from |-> [t \in Threads |-> 0],
          kid |-> "none", seen |-> "none", late |-> 0, sync |-> "none",
          arg |-> "none", did |-> << >>]

\* the log call in progress on a thread: its level and message, whether its
\* send ran out of retries, and where the thread goes on when it is over:
\* "log_ret" (bxilog_vlog_nolevelcheck returns to the business code),
\* "ok_ret" (the enclosing API call returns BXIERR_OK), or the next step of
\* the enclosing function
NoCur == [level |-> "none", msg |-> << >>, late |-> FALSE, k |-> "none"]

NoChild == [st |-> "none", born |-> "none", iht |-> FALSE, ctx |-> FALSE,
            mutex |-> FALSE, lines |-> 0, dropped |-> 0, inits |-> 0,
            alive |-> FALSE]

\* ------------------------------------------------------ logger registry

\* the loggers of the example program, bxilog_cfg.c lines 7-11
MY_LOGGER == << "m", "y", ".", "l", "o", "g", "g", "e", "r" >>
LOGGER_A == << "a", ".", "l", "o", "g", "g", "e", "r" >>
LOGGER_AB == << "a", ".", "b", ".", "l", "o", "g", "g", "e", "r" >>
LOGGER_AC == << "a", ".", "c", ".", "l", "o", "g", "g", "e", "r" >>

\* a logger is known by its address; LoggerName gives logger->name
LoggerName == << MY_LOGGER, LOGGER_A, LOGGER_AB, LOGGER_AC >>
Loggers == DOMAIN LoggerName

\* bxilog_new, line 594: the level a logger starts with
DefaultLevel == "trace"

\* the configuration of the example program, bxilog_cfg.c lines 54-57
ExampleCfg == << [prefix |-> << >>, level |-> "lowest"],
                 [prefix |-> << "a" >>, level |-> "output"],
                 [prefix |-> << "a", ".", "b" >>, level |-> "warning"] >>

\* the configurations handed to bxilog_cfg_registered: up to MaxRules items
\* taken from those of the example, in any order, repeats included
CfgLists == UNION {[1..n -> {ExampleCfg[i] : i \in DOMAIN ExampleCfg}] :
                     n \in 0..MaxRules}

\* bxilog_cfg_registered, line 464:
\* 0 == strncmp(cfg[i]->logger_name_prefix, logger->name, len)
PrefixMatches(prefix, name) ==
  /\ Len(prefix) <= Len(name)
  /\ \A i \in 1..Len(prefix) : prefix[i] = name[i]

\* bxilog_cfg_registered, lines 462-468: the inner loop, from slot l on, for
\* one item of the configuration
RECURSIVE CfgItem(_, _, _, _, _)
CfgItem(levels, item, arr, nb, l) ==
  IF l > nb THEN levels
  ELSE CfgItem(IF PrefixMatches(item.prefix, LoggerName[arr[l]])
               THEN [levels EXCEPT ![arr[l]] = item.level]
               ELSE levels,
               item, arr, nb, l + 1)

\* bxilog_cfg_registered, lines 459-469: the outer loop, from item i on
RECURSIVE CfgItems(_, _, _, _, _)
CfgItems(levels, cfg, arr, nb, i) ==
  IF i > Len(cfg) THEN levels
  ELSE CfgItems(CfgItem(levels, cfg[i], arr, nb, 1), cfg, arr, nb, i + 1)

\* bxilog_cfg_registered, line 463-464: logger->name is read through a NULL
\* pointer when one of the first REGISTERED_LOGGERS_NB slots is NULL
ReadsNull(cfg, arr, nb) ==
  Len(cfg) > 0 /\ \E l \in 1..nb : arr[l] = 0

NoRegHist == [op |-> "none", cfg |-> << >>,
              prev |-> [l \in Loggers |-> DefaultLevel], reg |-> {}]

\* ------------------------------------------------------------------- Init

\* no frame has been taken
NoFile == [frame |-> << >>, len |-> 0, done |-> FALSE, file |-> << >>]

\* no line has been rendered
NoMsg == [done |-> FALSE]

\* a sink that is a file of its own
LogFile == "path"

InitWith(f) ==
  /\ closedFds = {}
  /\ msg = NoMsg
  /\ State = "UNSET"
  /\ BXILOG_CONTEXT = FALSE
  /\ BXILOG_INITIALIZED_MUTEX = 0
  /\ ATFORK_ONCE = FALSE
  /\ TSD_KEY_ONCE = FALSE
  /\ iht = "none"
  /\ ihtErr = 0
  /\ ihtCmd = NoCmd
  /\ pipes = [t \in Threads |-> << >>]
  /\ ctlReq = [t \in Threads |-> "none"]
  /\ ctlRep = [t \in Threads |-> "none"]
  /\ sink = << >>
  /\ errOut = << >>
  /\ warned = FALSE
  /\ pc = [t \in Threads |-> "idle"]
  /\ via = [t \in Threads |-> "api"]
  /\ cur = [t \in Threads |-> NoCur]
  /\ lerr = [t \in Threads |-> 0]
  /\ tsd = [t \in Threads |-> "none"]
  /\ stale = [t \in Threads |-> FALSE]
  /\ seq = [t \in Threads |-> 0]
  /\ base = [t \in Threads |-> 0]
  /\ sent = [t \in Threads |-> << >>]
  /\ ret = [t \in Threads |-> NoRet]
  /\ nExit = 0
  /\ proc = "running"
  /\ child = NoChild
  /\ ops = 0
  /\ faults = f
  /\ REGISTERED_LOGGERS = << >>
  /\ REGISTERED_LOGGERS_NB = 0
  /\ logLevel = [l \in Loggers |-> DefaultLevel]
  /\ regHist = NoRegHist
  /\ register_lock = 0
  /\ FATAL_ERROR_IN_PROGRESS = FALSE
  /\ sfd = "none"
  /\ synced = 0
  /\ ctlBusy = [t \in Threads |-> FALSE]

\* the environment's system calls all succeed
Init == InitWith(0) /\ filename = NoFile /\ FILENAME = LogFile

\* the environment may make up to MaxFaults system calls fail
InitFault == InitWith(MaxFaults) /\ filename = NoFile /\ FILENAME = LogFile

\* ------------------------------------------------- history / call records

Call(t, op) == [NoRet EXCEPT !.op = op, !.res = "pending",
                             !.pre = Snap(t), !.post = Snap(t)]

SnapNext(t) == [st |-> State', iht |-> iht', ctx |-> BXILOG_CONTEXT',
                exits |-> nExit', tsd |-> tsd'[t], seq |-> seq'[t],
                lines |-> Len(sink')]

\* the call of thread t returns `res`; what it then observes is recorded
Return(t, res) == ret' = [ret EXCEPT ![t].res = res, ![t].post = SnapNext(t)]

Idle(t) == proc = "running" /\ pc[t] = "idle" /\ ops < MaxOps
At(t, where) == proc = "running" /\ pc[t] = where

\* ------------------------------------------------------ producer helpers

Rec(t, lv, m) == [tid |-> t, seqno |-> seq[t] + 1, level |-> lv, msg |-> m]

\* bxizmq_snd_data_zc, called at lines 727-730: the frame enters the pipe when
\* the handler's PULL socket is bound and the pipe is below its high-water
\* mark; until then the sender retries and finally waits
CanPush(t) == iht \in {"polling", "flushing", "quitting"}
              /\ Len(pipes[t]) < MaxQueue

\* the frame of one log call is enqueued on the data channel
Push(t, lv, m) ==
  /\ pipes' = [pipes EXCEPT ![t] = Enqueue(@, Rec(t, lv, m))]
  /\ seq' = [seq EXCEPT ![t] = @ + 1]
  /\ sent' = [sent EXCEPT ![t] = Append(@, m)]

MutSyncSend(t, lv, m) == UNCHANGED <<pipes, seq, sent>>

\* the send after RETRIES_MAX failed attempts (line 168: the sender falls
\* back to SYNC sending): the frame is enqueued all the same, and the caller
\* is told how many retries it took
SyncSend(t, lv, m) == Push(t, lv, m)

\* DEBUG(BXILOG_INTERNAL_LOGGER, ...) and WARNING(BXILOG_INTERNAL_LOGGER, ...):
\* log calls of the library itself, which go through bxilog_vlog_nolevelcheck
InternalMsg == << "a" >>
Internal(lv, k) == [level |-> lv, msg |-> InternalMsg, late |-> FALSE, k |-> k]

\* _get_tsd, lines 993-1032: the thread's data is created on first use
TsdAfterGet(t) == IF tsd[t] = "none" THEN "live" ELSE tsd[t]

\* _get_tsd, line 1003: assert(NULL != data_url) fails when the data must be
\* created while no context exists
GetTsdAborts(t) == tsd[t] = "none" /\ ~BXILOG_CONTEXT

\* _get_tsd, lines 1011-1012: a tsd created on first use has a new REQ
\* socket, which awaits no reply
BusyAfterGet(t) ==
  IF tsd[t] = "none" THEN [ctlBusy EXCEPT ![t] = FALSE] ELSE ctlBusy

MutCanRequest(t) == TRUE

\* the control handle is a ZMQ_REQ socket (line 1011): it sends a request
\* only when it awaits no reply; a send in between fails (EFSM)
CanRequest(t) == ~ctlBusy[t] \/ tsd[t] = "none"

\* a control request reaches the handler's REP socket only while it exists
HandlerListens == iht \in {"created", "polling", "flushing"}

\* the log call of thread t is over with result `res`: the thread goes on
\* where cur[t].k says
Resume(t, res) ==
  IF cur[t].k \notin {"log_ret", "ok_ret"}
  THEN /\ pc' = [pc EXCEPT ![t] = cur[t].k]
       /\ UNCHANGED ret
  ELSE /\ pc' = [pc EXCEPT ![t] = "idle"]
       /\ Return(t, IF cur[t].k = "log_ret" THEN res ELSE "ok")

\* ------------------------------------------------------------ bxilog_init

\* bxilog_init, lines 539-548: the entry check
bxilog_init(t) ==
  /\ Idle(t)
  /\ UNCHANGED <<regVars, sigVars>>
  /\ ops' = ops + 1
  /\ IF CanInit(State)
     THEN /\ State' = State
          /\ pc' = [pc EXCEPT ![t] = "init_lock"]
          /\ via' = [via EXCEPT ![t] = "api"]
     ELSE /\ State' = EntryRejectState(State)
          /\ UNCHANGED <<pc, via>>
  /\ UNCHANGED <<BXILOG_CONTEXT, BXILOG_INITIALIZED_MUTEX, ATFORK_ONCE,
                 TSD_KEY_ONCE, ihtVars, chanVars, outVars, cur, lerr, tsdVars,
                 histVars, nExit, proc, child, faults>>
  /\ ret' = [ret EXCEPT ![t] =
               [Call(t, "init") EXCEPT
                  !.res = IF CanInit(State) THEN "pending" ELSE "illegal-state",
                  !.post = SnapNext(t)]]

\* _init, lines 1547-1597: lock, check, context, handler thread, unlock,
\* TSD key.  When pthread_create fails in _create_iht, lines 1186-1190, the
\* error is returned at line 1584, before the unlock: bxilog_init returns it
\* (line 558), _parent_after_fork ignores it, finds INITIALIZING, sets
\* INITIALIZED and makes its DEBUG call (lines 1709-1717).
InitLock(t) ==
  /\ At(t, "init_lock")
  /\ UNCHANGED <<regVars, sigVars>>
  /\ BXILOG_INITIALIZED_MUTEX = 0
  /\ \E o \in Outcomes :
     LET rejected == ~CanInit(State)
         asserted == ~rejected /\ BXILOG_CONTEXT
         started == ~rejected /\ ~asserted
         good == started /\ o = "ok"
         failed == started /\ o = "fail"
     IN
     /\ State' = IF rejected THEN InnerRejectState(State)
                 ELSE IF failed /\ via[t] = "fork" THEN "INITIALIZED"
                 ELSE "INITIALIZING"
     /\ BXILOG_INITIALIZED_MUTEX' = IF good THEN 0 ELSE t
     /\ BXILOG_CONTEXT' = (BXILOG_CONTEXT \/ started)
     /\ iht' = IF good THEN "created" ELSE iht
     /\ ihtErr' = IF good THEN 0 ELSE ihtErr
     /\ ihtCmd' = IF good THEN NoCmd ELSE ihtCmd
     /\ TSD_KEY_ONCE' = (TSD_KEY_ONCE \/ good)
     /\ tsd' = IF good /\ ~TSD_KEY_ONCE THEN [u \in Threads |-> "none"] ELSE tsd
     /\ ctlBusy' = ctlBusy
     /\ stale' = IF good /\ ~TSD_KEY_ONCE
                 THEN [u \in Threads |-> stale[u] \/ tsd[u] = "freed"]
                 ELSE stale
     /\ base' = IF good THEN seq ELSE base
     /\ faults' = IF failed THEN faults - 1 ELSE faults
     /\ proc' = IF asserted THEN "aborted"
                ELSE IF rejected /\ via[t] = "fork" THEN "exited"
                ELSE proc
     /\ pc' = IF good THEN [pc EXCEPT ![t] = "init_hs"]
              ELSE IF (rejected \/ failed) /\ via[t] = "api"
                   THEN [pc EXCEPT ![t] = "idle"]
              ELSE IF failed THEN [pc EXCEPT ![t] = "vlog"]
              ELSE pc
     /\ cur' = IF failed /\ via[t] = "fork"
               THEN [cur EXCEPT ![t] = Internal("debug", "ok_ret")]
               ELSE cur
     /\ UNCHANGED <<ATFORK_ONCE, chanVars, outVars, via, lerr, seq, sent,
                    nExit, child, ops>>
     /\ IF rejected /\ via[t] = "api" THEN Return(t, "illegal-state")
        ELSE IF failed /\ via[t] = "api" THEN Return(t, "error")
        ELSE UNCHANGED ret

\* _init, lines 1599-1603: _get_tsd and the ready? request
InitHandshake(t) ==
  /\ At(t, "init_hs")
  /\ UNCHANGED <<regVars, sigVars>>
  /\ tsd' = [tsd EXCEPT ![t] = TsdAfterGet(t)]
  /\ ctlBusy' = [ctlBusy EXCEPT ![t] = TRUE]
  /\ ctlReq' = [ctlReq EXCEPT ![t] = IF HandlerListens THEN "ready?" ELSE @]
  /\ pc' = [pc EXCEPT ![t] = "init_wait"]
  /\ UNCHANGED <<lifecycleVars, ihtVars, pipes, ctlRep, outVars, via, cur,
                 lerr, stale, histVars, ret, nExit, proc, child, ops, faults>>

\* _init, lines 1605-1616, then its caller up to the DEBUG call:
\* bxilog_init, lines 557-568, or _parent_after_fork, lines 1710-1717
InitReady(t) ==
  /\ At(t, "init_wait")
  /\ UNCHANGED <<regVars, sigVars>>
  /\ ctlRep[t] # "none"
  /\ LET proto == ctlRep[t] # "ready!"
         good == ~proto /\ State = "INITIALIZING"
     IN
     /\ ctlRep' = [ctlRep EXCEPT ![t] = "none"]
     /\ ctlBusy' = [ctlBusy EXCEPT ![t] = FALSE]
     /\ proc' = IF proto THEN "exited"
                ELSE IF good THEN proc
                ELSE IF via[t] = "api" THEN "aborted" ELSE "exited"
     /\ State' = IF good THEN "INITIALIZED" ELSE State
     /\ ATFORK_ONCE' = (ATFORK_ONCE \/ (good /\ via[t] = "api"))
     /\ pc' = IF good THEN [pc EXCEPT ![t] = "vlog"] ELSE pc
     /\ cur' = IF good THEN [cur EXCEPT ![t] = Internal("debug", "ok_ret")]
               ELSE cur
     /\ UNCHANGED <<BXILOG_CONTEXT, BXILOG_INITIALIZED_MUTEX, TSD_KEY_ONCE,
                    ihtVars, pipes, ctlReq, outVars, via, lerr, tsd, stale,
                    histVars, ret, nExit, child, ops, faults>>

\* -------------------------------------------------------- bxilog_finalize

\* bxilog_finalize, lines 573-579: the entry check, then the DEBUG call
bxilog_finalize(t) ==
  /\ Idle(t)
  /\ UNCHANGED <<regVars, sigVars>>
  /\ ops' = ops + 1
  /\ IF CanFinalize(State)
     THEN /\ State' = State
          /\ pc' = [pc EXCEPT ![t] = "vlog"]
          /\ cur' = [cur EXCEPT ![t] = Internal("debug", "fin_enter")]
          /\ via' = [via EXCEPT ![t] = "api"]
     ELSE /\ State' = EntryRejectState(State)
          /\ UNCHANGED <<pc, cur, via>>
  /\ UNCHANGED <<BXILOG_CONTEXT, BXILOG_INITIALIZED_MUTEX, ATFORK_ONCE,
                 TSD_KEY_ONCE, ihtVars, chanVars, outVars, lerr, tsdVars,
                 histVars, nExit, proc, child, faults>>
  /\ ret' = [ret EXCEPT ![t] =
               [Call(t, "finalize") EXCEPT
                  !.res = IF CanFinalize(State) THEN "pending"
                          ELSE "illegal-state",
                  !.post = SnapNext(t)]]

\* _finalize, lines 1637-1647, with _end_iht, lines 1619-1635: the exit?
\* request is sent and the caller's tsd is freed (the key keeps pointing to
\* it).  _get_tsd creates the tsd when the thread has none.  The call
\* remembers how many records each thread had enqueued when exit? was sent.
FinEnter(t) ==
  /\ At(t, "fin_enter")
  /\ UNCHANGED <<regVars, sigVars>>
  /\ LET good == CanFinalize(State) IN
     /\ State' = IF good THEN "FINALIZING" ELSE InnerRejectState(State)
     /\ ctlReq' = [ctlReq EXCEPT ![t] = IF good /\ HandlerListens
                                        THEN "exit?" ELSE @]
     /\ ctlRep' = [ctlRep EXCEPT ![t] = IF good THEN "none" ELSE @]
     /\ nExit' = IF good THEN nExit + 1 ELSE nExit
     /\ tsd' = [tsd EXCEPT ![t] = IF good THEN "freed" ELSE @]
     /\ ctlBusy' = [ctlBusy EXCEPT ![t] = IF good THEN FALSE ELSE @]
     /\ lerr' = [lerr EXCEPT ![t] = 0]
     /\ proc' = IF ~good /\ via[t] = "fork" THEN "exited" ELSE proc
     /\ pc' = IF good THEN [pc EXCEPT ![t] = "fin_join"]
              ELSE IF via[t] = "api" THEN [pc EXCEPT ![t] = "idle"]
              ELSE pc
     /\ UNCHANGED <<BXILOG_CONTEXT, BXILOG_INITIALIZED_MUTEX, ATFORK_ONCE,
                    TSD_KEY_ONCE, ihtVars, pipes, outVars, via, cur, stale,
                    histVars, child, ops, faults>>
     /\ IF ~good /\ via[t] = "api" THEN Return(t, "illegal-state")
        ELSE IF good
        THEN ret' = [ret EXCEPT ![t].mark = seq, ![t].from = base]
        ELSE UNCHANGED ret

\* _finalize, lines 1648-1657: pthread_join returns the handler's error chain
FinJoin(t) ==
  /\ At(t, "fin_join")
  /\ UNCHANGED <<regVars, sigVars>>
  /\ iht = "exited"
  /\ iht' = "none"
  /\ lerr' = [lerr EXCEPT ![t] = @ + ihtErr]
  /\ pc' = [pc EXCEPT ![t] = "fin_ctx"]
  /\ UNCHANGED <<lifecycleVars, ihtErr, ihtCmd, chanVars, outVars, via, cur,
                 tsdVars, histVars, ret, nExit, proc, child, ops, faults>>

\* _finalize, lines 1659-1675: zmq_ctx_destroy waits until every socket of the
\* context is closed; then the caller goes on: bxilog_finalize, lines 582-587,
\* or _parent_before_fork, lines 1696-1701
FinCtx(t) ==
  /\ At(t, "fin_ctx")
  /\ UNCHANGED <<regVars, sigVars>>
  /\ \A u \in Threads : tsd[u] # "live"
  /\ BXILOG_CONTEXT' = FALSE
  /\ TSD_KEY_ONCE' = FALSE
  /\ LET failed == via[t] = "api" /\ lerr[t] > 0
         wrong == ~failed /\ State # "FINALIZING"
     IN
     /\ State' = IF failed \/ wrong THEN State
                 ELSE IF via[t] = "api" THEN "FINALIZED" ELSE "FORKED"
     /\ proc' = IF wrong THEN (IF via[t] = "api" THEN "aborted" ELSE "exited")
                ELSE proc
     /\ pc' = IF wrong THEN pc
              ELSE IF via[t] = "api" THEN [pc EXCEPT ![t] = "idle"]
              ELSE [pc EXCEPT ![t] = "fork_sys"]
     /\ UNCHANGED <<BXILOG_INITIALIZED_MUTEX, ATFORK_ONCE, ihtVars, chanVars,
                    outVars, via, cur, lerr, tsdVars, histVars, nExit, child,
                    ops, faults>>
     /\ IF failed THEN Return(t, "error")
        ELSE IF ~wrong /\ via[t] = "api" THEN Return(t, "ok")
        ELSE UNCHANGED ret

\* ------------------------------------------------------------- log, flush

\* a log call of the business code: bxilog_vlog_nolevelcheck, line 638:
\* discarded unless INITIALIZED
bxilog_log(t, lv, m) ==
  /\ Idle(t)
  /\ UNCHANGED <<regVars, sigVars>>
  /\ ops' = ops + 1
  /\ pc' = [pc EXCEPT ![t] = IF IsInitialized(State) THEN "log_send" ELSE @]
  /\ cur' = [cur EXCEPT ![t] = IF IsInitialized(State)
                               THEN [level |-> lv, msg |-> m, late |-> FALSE,
                                     k |-> "log_ret"]
                               ELSE @]
  /\ UNCHANGED <<lifecycleVars, ihtVars, chanVars, outVars, via, lerr, tsdVars,
                 histVars, nExit, proc, child, faults>>
  /\ ret' = [ret EXCEPT ![t] =
               [Call(t, "log") EXCEPT
                  !.res = IF IsInitialized(State) THEN "pending" ELSE "ok",
                  !.post = SnapNext(t)]]

\* a log call of the library itself: bxilog_vlog_nolevelcheck, line 638
VlogEnter(t) ==
  /\ At(t, "vlog")
  /\ UNCHANGED <<regVars, sigVars>>
  /\ UNCHANGED <<lifecycleVars, ihtVars, chanVars, outVars, via, cur, lerr,
                 tsdVars, histVars, nExit, proc, child, ops, faults>>
  /\ IF IsInitialized(State)
     THEN /\ pc' = [pc EXCEPT ![t] = "log_send"]
          /\ UNCHANGED ret
     ELSE Resume(t, "ok")

\* bxilog_vlog_nolevelcheck, lines 727-732: the non-blocking send found the
\* pipe full RETRIES_MAX times (line 168: "how many retries before falling
\* back to SYNC sending"); the call record remembers the sequence number of
\* the first record this happened to.  A user record is followed while fewer
\* than MaxRecs records were enqueued, a chain of WARNING calls while it has
\* fewer than MaxChain links after its first one.
LogRetry(t) ==
  /\ At(t, "log_send")
  /\ UNCHANGED <<regVars, sigVars>>
  /\ ~GetTsdAborts(t)
  /\ ~cur[t].late
  /\ \/ seq[t] < MaxRecs
     \/ cur[t].level = "warning" /\ seq[t] - ret[t].late < MaxChain
  /\ iht \in {"polling", "flushing", "quitting"}
  /\ Len(pipes[t]) >= MaxQueue
  /\ cur' = [cur EXCEPT ![t].late = TRUE]
  /\ tsd' = [tsd EXCEPT ![t] = TsdAfterGet(t)]
  /\ ctlBusy' = BusyAfterGet(t)
  /\ ret' = [ret EXCEPT ![t].late = IF @ = 0 THEN seq[t] + 1 ELSE @]
  /\ UNCHANGED <<lifecycleVars, ihtVars, chanVars, outVars, pc, via, lerr,
                 stale, histVars, nExit, proc, child, ops, faults>>

\* bxilog_vlog_nolevelcheck, lines 640-745: _get_tsd, the clock (a failure
\* returns the error, line 698), the frame, the send, the WARNING call after
\* a send that needed retries (lines 731-737)
LogSend(t) ==
  /\ At(t, "log_send")
  /\ UNCHANGED <<regVars, sigVars>>
  /\ UNCHANGED <<lifecycleVars, ihtVars, ctlReq, ctlRep, outVars, via, lerr,
                 stale, base, nExit, child, ops>>
  /\ IF GetTsdAborts(t)
     THEN /\ proc' = "aborted"
          /\ UNCHANGED <<pipes, seq, sent, tsd, ctlBusy, cur, faults, pc, ret>>
     ELSE \E o \in Outcomes :
            /\ proc' = proc
            /\ tsd' = [tsd EXCEPT ![t] = TsdAfterGet(t)]
            /\ ctlBusy' = BusyAfterGet(t)
            /\ faults' = IF o = "fail" THEN faults - 1 ELSE faults
            /\ IF o = "fail"
               THEN /\ UNCHANGED <<pipes, seq, sent, cur>>
                    /\ Resume(t, "error")
               ELSE /\ CanPush(t)
                    /\ IF cur[t].late
                       THEN SyncSend(t, cur[t].level, cur[t].msg)
                       ELSE Push(t, cur[t].level, cur[t].msg)
                    /\ IF cur[t].late
                       THEN /\ cur' = [cur EXCEPT
                                         ![t] = Internal("warning", cur[t].k)]
                            /\ pc' = [pc EXCEPT ![t] = "vlog"]
                            /\ UNCHANGED ret
                       ELSE /\ UNCHANGED cur
                            /\ Resume(t, "ok")

\* bxilog_flush, lines 605-607: a no-op unless INITIALIZED, else the DEBUG
\* call.  The call remembers how many records each thread had enqueued when it
\* started.
bxilog_flush(t) ==
  /\ Idle(t)
  /\ UNCHANGED <<regVars, sigVars>>
  /\ ops' = ops + 1
  /\ pc' = [pc EXCEPT ![t] = IF IsInitialized(State) THEN "vlog" ELSE @]
  /\ cur' = [cur EXCEPT ![t] = IF IsInitialized(State)
                               THEN Internal("debug", "flush_send") ELSE @]
  /\ UNCHANGED <<lifecycleVars, ihtVars, chanVars, outVars, via, lerr,
                 tsdVars, histVars, nExit, proc, child, faults>>
  /\ ret' = [ret EXCEPT ![t] =
               [Call(t, "flush") EXCEPT
                  !.res = IF IsInitialized(State) THEN "pending" ELSE "ok",
                  !.mark = seq, !.from = base,
                  !.post = SnapNext(t)]]

\* bxilog_flush, lines 608-613: _get_tsd, the flush? request
FlushSend(t) ==
  /\ At(t, "flush_send")
  /\ UNCHANGED <<regVars, sigVars>>
  /\ IF GetTsdAborts(t)
     THEN /\ proc' = "aborted"
          /\ UNCHANGED <<tsd, ctlBusy, pc, ctlReq>>
     ELSE /\ tsd' = [tsd EXCEPT ![t] = TsdAfterGet(t)]
          /\ ctlBusy' = [ctlBusy EXCEPT ![t] = TRUE]
          /\ ctlReq' = [ctlReq EXCEPT ![t] = IF HandlerListens
                                             THEN "flush?" ELSE @]
          /\ pc' = [pc EXCEPT ![t] = "flush_wait"]
          /\ proc' = proc
  /\ UNCHANGED <<lifecycleVars, ihtVars, pipes, ctlRep, outVars, via, cur,
                 lerr, stale, histVars, ret, nExit, child, ops, faults>>

\* bxilog_flush, lines 614-629: the reply
FlushRecv(t) ==
  /\ At(t, "flush_wait")
  /\ UNCHANGED <<regVars, sigVars>>
  /\ ctlRep[t] # "none"
  /\ ctlRep' = [ctlRep EXCEPT ![t] = "none"]
  /\ ctlBusy' = [ctlBusy EXCEPT ![t] = FALSE]
  /\ pc' = [pc EXCEPT ![t] = "idle"]
  /\ UNCHANGED <<lifecycleVars, ihtVars, pipes, ctlReq, outVars, via, cur,
                 lerr, tsd, stale, histVars, nExit, proc, child, ops, faults>>
  /\ Return(t, IF ctlRep[t] = "flushed!" THEN "ok" ELSE "protocol")

\* ------------------------------------------------------------------ fork

\* fork(): _parent_before_fork, lines 1687-1694, runs first when the handlers
\* are installed (_install_fork_handlers, lines 1679-1684)
fork(t) ==
  /\ Idle(t)
  /\ UNCHANGED <<regVars, sigVars>>
  /\ ops' = ops + 1
  /\ LET dies == ATFORK_ONCE /\ ForkForbidden(State)
         tears == ATFORK_ONCE /\ ~dies /\ State = "INITIALIZED"
     IN
     /\ proc' = IF dies THEN "exited" ELSE proc
     /\ pc' = [pc EXCEPT ![t] = IF dies THEN @
                                ELSE IF tears THEN "vlog"
                                ELSE "fork_sys"]
     /\ cur' = [cur EXCEPT ![t] = IF tears THEN Internal("debug", "fin_enter")
                                  ELSE @]
     /\ via' = [via EXCEPT ![t] = IF tears THEN "fork" ELSE @]
  /\ UNCHANGED <<lifecycleVars, ihtVars, chanVars, outVars, lerr, tsdVars,
                 histVars, nExit, child, faults>>
  /\ ret' = [ret EXCEPT ![t] = Call(t, "fork")]

\* the fork itself: the child is a copy of the forking thread alone; in it
\* _child_after_fork, lines 1720-1729, runs when the handlers are installed
ForkSys(t) ==
  /\ At(t, "fork_sys")
  /\ UNCHANGED <<regVars, sigVars>>
  /\ LET born == IF ATFORK_ONCE /\ State = "FORKED" THEN "FINALIZED"
                 ELSE State
     IN
     /\ child' = [st |-> born, born |-> born, iht |-> FALSE,
                  ctx |-> BXILOG_CONTEXT,
                  mutex |-> (BXILOG_INITIALIZED_MUTEX # 0),
                  lines |-> 0, dropped |-> 0, inits |-> 0, alive |-> TRUE]
     /\ ret' = [ret EXCEPT ![t].kid = born]
  /\ pc' = [pc EXCEPT ![t] = "fork_post"]
  /\ UNCHANGED <<lifecycleVars, ihtVars, chanVars, outVars, via, cur, lerr,
                 tsdVars, histVars, nExit, proc, ops, faults>>

\* _parent_after_fork, lines 1704-1709: back to FINALIZED and into _init
ForkPost(t) ==
  /\ At(t, "fork_post")
  /\ UNCHANGED <<regVars, sigVars>>
  /\ LET rebuild == ATFORK_ONCE /\ State = "FORKED" IN
     /\ State' = IF rebuild THEN "FINALIZED" ELSE State
     /\ pc' = [pc EXCEPT ![t] = IF rebuild THEN "init_lock" ELSE "idle"]
     /\ via' = [via EXCEPT ![t] = IF rebuild THEN "fork" ELSE @]
     /\ UNCHANGED <<BXILOG_CONTEXT, BXILOG_INITIALIZED_MUTEX, ATFORK_ONCE,
                    TSD_KEY_ONCE, ihtVars, chanVars, outVars, cur, lerr,
                    tsdVars, histVars, nExit, proc, child, ops, faults>>
     /\ ret' = [ret EXCEPT
                  ![t].seen = IF ATFORK_ONCE THEN State ELSE "none",
                  ![t].res = IF rebuild THEN @ ELSE "ok",
                  ![t].post = IF rebuild THEN @ ELSE SnapNext(t)]

\* a business-code thread ends: the destructor _tsd_free, lines 965-983, runs
\* on the value its key holds.  Freeing an already freed tsd is undefined:
\* the process goes on or dies.
ThreadExit(t) ==
  /\ Idle(t)
  /\ UNCHANGED <<regVars, sigVars>>
  /\ ops' = ops + 1
  /\ pc' = [pc EXCEPT ![t] = "gone"]
  /\ tsd' = [tsd EXCEPT ![t] = "none"]
  /\ ctlBusy' = [ctlBusy EXCEPT ![t] = FALSE]
  /\ stale' = [stale EXCEPT ![t] = FALSE]
  /\ ctlReq' = [ctlReq EXCEPT ![t] = "none"]
  /\ ctlRep' = [ctlRep EXCEPT ![t] = "none"]
  /\ \E outcome \in IF tsd[t] = "freed" \/ stale[t]
                    THEN {"running", "aborted"} ELSE {"running"} :
        proc' = outcome
  /\ UNCHANGED <<lifecycleVars, ihtVars, pipes, outVars, via, cur, lerr,
                 histVars, ret, nExit, child, faults>>

\* ------------------------------------------------- the internal handler

\* variant: the drain stops at once
MutAllEmpty == TRUE

\* _flush_iht, lines 1153-1164: no frame is pending on the data channel
AllEmpty == \A t \in Threads : pipes[t] = << >>

\* _should_quit, lines 1530-1544, called by _iht_main after an event with the
\* error chain at `depth`: too deep, the "Too many errors" error is chained
\* and the loop is left; else, when there are errors, they are printed to
\* stderr and the handler goes on in state `stay`
AfterEvent(depth, stay) ==
  /\ iht' = IF should_quit(depth) THEN "quitting" ELSE stay
  /\ ihtErr' = IF should_quit(depth) THEN depth + 1 ELSE depth
  /\ warned' = (warned \/ (depth > 0 /\ ~should_quit(depth)))

MutCanServe == iht \in {"created", "polling"}

\* _iht_main, lines 1051-1092: the handler polls its sockets only in its
\* loop, which it enters after the sink is opened and both sockets are bound
CanServe == iht = "polling"

\* _iht_main, lines 1039-1078: the sink is opened, the sockets are bound;
\* when one of these calls fails the handler goes to QUIT (line 1074) without
\* having read a request
IhtStart ==
  /\ proc = "running"
  /\ UNCHANGED <<regVars, sigVars>>
  /\ iht = "created"
  /\ \E o \in Outcomes :
       /\ iht' = IF o = "ok" THEN "polling" ELSE "quitting"
       /\ ihtErr' = IF o = "ok" THEN ihtErr ELSE ihtErr + 1
       /\ faults' = IF o = "ok" THEN faults ELSE faults - 1
  /\ UNCHANGED <<lifecycleVars, ihtCmd, chanVars, outVars, pc, via,
                 cur, lerr, tsdVars, histVars, ret, nExit, proc, child, ops>>

\* _get_file_fd, lines 1457-1472: IHT_DATA.fd is STDOUT_FILENO for "-",
\* STDERR_FILENO for "+" and a descriptor of its own otherwise
SinkFd == IF FILENAME = "-" THEN "stdout"
          ELSE IF FILENAME = "+" THEN "stderr" ELSE "file"

\* a write to IHT_DATA.fd fails with EBADF
SinkClosed == SinkFd \in closedFds

\* _process_data, lines 1229-1299: one frame is received from a pipe, cut
\* into lines, and each line is written by _log_single_line, lines 1195-1227
ProcessData(t) ==
  LET rec == Dequeue(pipes[t])
      lines == LinesOf(rec)
  IN IF SinkClosed
     THEN /\ pipes' = [pipes EXCEPT ![t] = Tail(@)]
          /\ errOut' = IF "stderr" \in closedFds THEN errOut
                        ELSE errOut \o AllToStderr(lines, 1)
          /\ UNCHANGED <<sink, faults>>
     ELSE
     \E f \in IF faults > 0 THEN 0..Len(lines) ELSE {0} :
     \E kind \in IF f = 0 THEN {"fail"} ELSE WriteKinds :
       /\ pipes' = [pipes EXCEPT ![t] = Tail(@)]
       /\ sink' = sink \o ToSink(lines, 1, f, kind)
       /\ errOut' = errOut \o ToStderr(lines, f, kind)
       /\ faults' = IF f = 0 THEN faults ELSE faults - 1

\* _iht_main, lines 1100-1105: data is ready
IhtData(t) ==
  /\ proc = "running"
  /\ UNCHANGED <<regVars, sigVars>>
  /\ iht = "polling"
  /\ pipes[t] # << >>
  /\ ProcessData(t)
  /\ AfterEvent(ihtErr, iht)
  /\ UNCHANGED <<lifecycleVars, ihtCmd, ctlReq, ctlRep, pc, via, cur, lerr,
                 tsdVars, histVars, ret, nExit, proc, child, ops>>

\* _iht_main, lines 1106-1115, and _process_ctrl_msg, lines 1303-1338: one
\* request is read; ready? is answered at once, flush? and exit? start
\* _flush_iht
IhtCtrl(t) ==
  /\ proc = "running"
  /\ UNCHANGED <<regVars, sigVars>>
  /\ CanServe
  /\ ctlReq[t] # "none"
  /\ ctlReq' = [ctlReq EXCEPT ![t] = "none"]
  /\ IF ctlReq[t] = "ready?"
     THEN /\ ctlRep' = [ctlRep EXCEPT ![t] = "ready!"]
          /\ AfterEvent(ihtErr, iht)
          /\ UNCHANGED ihtCmd
     ELSE /\ iht' = "flushing"
          /\ ihtCmd' = [cmd |-> ctlReq[t], from |-> t]
          /\ UNCHANGED <<ctlRep, ihtErr, warned>>
  /\ UNCHANGED <<lifecycleVars, pipes, sink, errOut, pc, via, cur, lerr,
                 tsdVars, histVars, ret, nExit, proc, child, ops, faults>>

\* _flush_iht, lines 1151-1169: while a frame is pending, process it
IhtFlushData(t) ==
  /\ proc = "running"
  /\ UNCHANGED <<regVars, sigVars>>
  /\ iht = "flushing"
  /\ pipes[t] # << >>
  /\ ProcessData(t)
  /\ UNCHANGED <<lifecycleVars, ihtVars, ctlReq, ctlRep, warned, pc, via,
                 cur, lerr, tsdVars, histVars, ret, nExit, proc, child, ops>>

\* _flush_iht, lines 1161-1172: nothing is pending, _sync, lines 1514-1528;
\* then _process_ctrl_msg replies flushed! whatever _flush_iht returned
\* (lines 1311-1316), or chains _IHT_EXIT_ERR_ (lines 1327-1334) and the loop
\* is left (lines 1110-1113).  The call record of the requesting thread
\* remembers what _sync returned.
IhtFlushEnd ==
  /\ proc = "running"
  /\ UNCHANGED <<regVars, sigVars>>
  /\ iht = "flushing"
  /\ ihtCmd.cmd # "signal"
  /\ AllEmpty
  /\ \E o \in Outcomes :
       LET depth == IF o = "fail" THEN ihtErr + 1 ELSE ihtErr IN
       /\ faults' = IF o = "fail" THEN faults - 1 ELSE faults
       /\ ctlRep' = IF ihtCmd.cmd = "flush?" /\ tsd[ihtCmd.from] = "live"
                    THEN [ctlRep EXCEPT ![ihtCmd.from] = "flushed!"]
                    ELSE ctlRep
       /\ IF ihtCmd.cmd = "exit?"
          THEN /\ iht' = "quitting"
               /\ ihtErr' = depth
               /\ UNCHANGED warned
          ELSE AfterEvent(depth, "polling")
       /\ ret' = IF ihtCmd.cmd = "flush?"
                 THEN [ret EXCEPT ![ihtCmd.from].sync = o]
                 ELSE ret
  /\ ihtCmd' = NoCmd
  /\ UNCHANGED <<lifecycleVars, pipes, ctlReq, sink, errOut, pc, via, cur,
                 lerr, tsdVars, histVars, nExit, proc, child, ops>>

\* _iht_main, lines 1093-1099: the poll timed out: _flush_iht finds nothing
\* and calls _sync
IhtTimeout ==
  /\ proc = "running"
  /\ UNCHANGED <<regVars, sigVars>>
  /\ iht = "polling"
  /\ AllEmpty
  /\ \A t \in Threads : ctlReq[t] = "none"
  /\ \E o \in Outcomes :
       LET depth == IF o = "fail" THEN ihtErr + 1 ELSE ihtErr IN
       /\ faults' = IF o = "fail" THEN faults - 1 ELSE faults
       /\ AfterEvent(depth, iht)
  /\ UNCHANGED <<lifecycleVars, ihtCmd, chanVars, sink, errOut, pc, via, cur,
                 lerr, tsdVars, histVars, ret, nExit, proc, child, ops>>

\* _iht_main, lines 1132-1143: QUIT: both sockets are destroyed (what is still
\* in the pipes is lost), _sync, close
IhtQuit ==
  /\ proc = "running"
  /\ UNCHANGED <<REGISTERED_LOGGERS, REGISTERED_LOGGERS_NB, logLevel, regHist,
                 register_lock, filename, FILENAME, msg, sigVars>>
  /\ closedFds' = closedFds \cup ({SinkFd} \ {"file"})
  /\ iht = "quitting"
  /\ \E o \in Outcomes, c \in Outcomes :
       LET n == (IF o = "fail" THEN 1 ELSE 0) + (IF c = "fail" THEN 1 ELSE 0)
       IN /\ n <= faults
          /\ faults' = faults - n
          /\ ihtErr' = ihtErr + n
  /\ iht' = "exited"
  /\ pipes' = [t \in Threads |-> << >>]
  /\ ctlReq' = [t \in Threads |-> "none"]
  /\ UNCHANGED <<lifecycleVars, ihtCmd, ctlRep, outVars, pc, via, cur, lerr,
                 tsdVars, histVars, ret, nExit, proc, child, ops>>

\* ------------------------------------------------------ the forked child

\* a log call in the child: bxilog_vlog_nolevelcheck, line 638
ChildLog ==
  /\ child.alive
  /\ UNCHANGED <<regVars, sigVars>>
  /\ ops < MaxOps
  /\ ops' = ops + 1
  /\ child' = IF ~IsInitialized(child.st)
              THEN [child EXCEPT !.dropped = @ + 1]
              ELSE IF child.iht THEN [child EXCEPT !.lines = @ + 1]
              ELSE [child EXCEPT !.alive = FALSE]
  /\ UNCHANGED <<lifecycleVars, ihtVars, chanVars, outVars, pc, via, cur, lerr,
                 tsdVars, histVars, ret, nExit, proc, faults>>

\* bxilog_init in the child (single-threaded): lines 539-571 and _init
ChildInit ==
  /\ child.alive
  /\ UNCHANGED <<regVars, sigVars>>
  /\ ops < MaxOps
  /\ ops' = ops + 1
  /\ child' = IF ~CanInit(child.st) THEN [child EXCEPT !.inits = @ + 1]
              ELSE IF child.mutex \/ child.ctx
              THEN [child EXCEPT !.inits = @ + 1, !.alive = FALSE]
              ELSE [child EXCEPT !.inits = @ + 1, !.st = "INITIALIZED",
                                 !.iht = TRUE, !.ctx = TRUE]
  /\ UNCHANGED <<lifecycleVars, ihtVars, chanVars, outVars, pc, via, cur, lerr,
                 tsdVars, histVars, ret, nExit, proc, faults>>

\* ------------------------------------------------------------------ Next

Next ==
  \/ \E t \in Threads : bxilog_init(t)
  \/ \E t \in Threads : InitLock(t)
  \/ \E t \in Threads : InitHandshake(t)
  \/ \E t \in Threads : InitReady(t)
  \/ \E t \in Threads : bxilog_finalize(t)
  \/ \E t \in Threads : FinEnter(t)
  \/ \E t \in Threads : FinJoin(t)
  \/ \E t \in Threads : FinCtx(t)
  \/ \E t \in Threads, lv \in LogLevels, m \in Msgs : bxilog_log(t, lv, m)
  \/ \E t \in Threads : VlogEnter(t)
  \/ \E t \in Threads : LogRetry(t)
  \/ \E t \in Threads : LogSend(t)
  \/ \E t \in Threads : bxilog_flush(t)
  \/ \E t \in Threads : FlushSend(t)
  \/ \E t \in Threads : FlushRecv(t)
  \/ \E t \in Threads : fork(t)
  \/ \E t \in Threads : ForkSys(t)
  \/ \E t \in Threads : ForkPost(t)
  \/ \E t \in Threads : ThreadExit(t)
  \/ IhtStart
  \/ \E t \in Threads : IhtData(t)
  \/ \E t \in Threads : IhtCtrl(t)
  \/ \E t \in Threads : IhtFlushData(t)
  \/ IhtFlushEnd
  \/ IhtTimeout
  \/ IhtQuit
  \/ ChildLog
  \/ ChildInit

Spec == Init /\ [][Next]_vars

SpecFault == InitFault /\ [][Next]_vars

\* a business-code thread that is inside a library call goes on: the
\* scheduler runs every thread that can run
ThreadStep(t) ==
  \/ InitLock(t) \/ InitHandshake(t) \/ InitReady(t)
  \/ FinEnter(t) \/ FinJoin(t) \/ FinCtx(t)
  \/ VlogEnter(t) \/ LogRetry(t) \/ LogSend(t)
  \/ FlushSend(t) \/ FlushRecv(t)
  \/ ForkSys(t) \/ ForkPost(t)

\* the handler thread goes on: zmq_poll returns after DEFAULT_POLL_TIMEOUT at
\* the latest
IhtStep ==
  \/ IhtStart
  \/ \E t \in Threads : IhtData(t) \/ IhtCtrl(t) \/ IhtFlushData(t)
  \/ IhtFlushEnd \/ IhtTimeout \/ IhtQuit

\* the calls the business code makes are its own choice; the steps inside
\* the library and the handler are taken whenever they stay possible
SpecLive ==
  /\ Init /\ [][Next]_vars
  /\ \A t \in Threads : WF_vars(ThreadStep(t))
  /\ WF_vars(IhtStep)

\* ---------------------------------------------------------------- claims

Called(t, op) == ret[t].op = op
InUnsetOrFinalized(s) == s = "UNSET" \/ s = "FINALIZED"
InitSteps == {"init_lock", "init_hs", "init_wait"}
FinSteps == {"fin_enter", "fin_join", "fin_ctx"}

\* C1: bxilog_init called while the lifecycle state is anything other than
\* UNSET or FINALIZED returns an illegal-state error and creates neither a
\* handler thread nor a queue context: on return the handler and the context
\* are as the call found them and the thread is not inside _init.
C1_InitRejected ==
  \A t \in Threads :
    (Called(t, "init") /\ ~InUnsetOrFinalized(ret[t].pre.st)) =>
      /\ ret[t].res = "illegal-state"
      /\ ret[t].post.iht = ret[t].pre.iht
      /\ ret[t].post.ctx = ret[t].pre.ctx
      /\ pc[t] \notin InitSteps

\* C1, its case: an init call found the library INITIALIZED, with its
\* handler and context, and was rejected
C1_Witness ==
  \E t \in Threads :
    /\ Called(t, "init")
    /\ ret[t].pre.st = "INITIALIZED"
    /\ ret[t].pre.ctx
    /\ ret[t].res = "illegal-state"

\* C2: bxilog_finalize called in any state other than INITIALIZED returns an
\* illegal-state error, sends no exit? request, joins no thread and destroys
\* no queue context.
C2_FinalizeRejected ==
  \A t \in Threads :
    (Called(t, "finalize") /\ ret[t].pre.st # "INITIALIZED") =>
      /\ ret[t].res = "illegal-state"
      /\ ret[t].post.exits = ret[t].pre.exits
      /\ ret[t].post.iht = ret[t].pre.iht
      /\ ret[t].post.ctx = ret[t].pre.ctx
      /\ pc[t] \notin FinSteps

\* C2, its case: a finalize call found the library FINALIZING, a handler
\* still there, and was rejected
C2_Witness ==
  \E t \in Threads :
    /\ Called(t, "finalize")
    /\ ret[t].pre.st = "FINALIZING"
    /\ ret[t].pre.iht # "none"
    /\ ret[t].res = "illegal-state"

RejectedAtEntry(t) ==
  \/ Called(t, "init") /\ ~InUnsetOrFinalized(ret[t].pre.st)
  \/ Called(t, "finalize") /\ ret[t].pre.st # "INITIALIZED"

Rejected(t) ==
  /\ Called(t, "init") \/ Called(t, "finalize")
  /\ ret[t].res = "illegal-state"

\* C3 as stated: whenever an init or finalize call is rejected because the
\* lifecycle state does not allow the transition, the lifecycle state becomes
\* ILLEGAL and the call returns an illegal-state error.
C3_RejectionMakesIllegal ==
  \A t \in Threads : Rejected(t) => ret[t].post.st = "ILLEGAL"

\* C3 amended: a call rejected by the entry check of bxilog_init or
\* bxilog_finalize returns an illegal-state error and leaves the lifecycle
\* state as it found it; a call that passed the entry check and is rejected by
\* the check of _init or _finalize (the state changed in between) returns an
\* illegal-state error and sets the state to ILLEGAL.
C3_RejectionState ==
  \A t \in Threads :
    /\ RejectedAtEntry(t) => ret[t].res = "illegal-state"
    /\ Rejected(t) =>
         ret[t].post.st = IF RejectedAtEntry(t) THEN ret[t].pre.st
                          ELSE "ILLEGAL"

\* C3, its cases: one call rejected at entry in a state other than ILLEGAL,
\* and one call rejected by the inner check
C3_Witness ==
  /\ \E t \in Threads : /\ Rejected(t) /\ RejectedAtEntry(t)
                        /\ ret[t].pre.st # "ILLEGAL"
  /\ \E t \in Threads : Rejected(t) /\ ~RejectedAtEntry(t)

\* C4 as stated: when bxilog_finalize is called in INITIALIZED, on return the
\* handler thread has been joined, the queue context has been destroyed and
\* the lifecycle state is FINALIZED, also when the call returns an error
\* accumulated by the handler.
C4_FinalizeEndsFinalized ==
  \A t \in Threads :
    (/\ Called(t, "finalize")
     /\ ret[t].pre.st = "INITIALIZED"
     /\ ret[t].res \in {"ok", "error"}) =>
      /\ ret[t].post.iht = "none"
      /\ ~ret[t].post.ctx
      /\ ret[t].post.st = "FINALIZED"

\* C5: a log call made while the lifecycle state is not INITIALIZED returns
\* success, enqueues nothing on the data channel, creates no per-thread state
\* and produces no sink line.
C5_LogDiscarded ==
  \A t \in Threads :
    (Called(t, "log") /\ ret[t].pre.st # "INITIALIZED") =>
      /\ ret[t].res = "ok"
      /\ ret[t].post.seq = ret[t].pre.seq
      /\ ret[t].post.tsd = ret[t].pre.tsd
      /\ ret[t].post.lines = ret[t].pre.lines
      /\ pc[t] # "log_send"

\* C5, its case: finalize has sent exit? and returned, the sink holds lines,
\* and a further log call returned
C5_Witness ==
  \E t \in Threads :
    /\ Called(t, "log")
    /\ ret[t].pre.st = "FINALIZED"
    /\ ret[t].pre.exits > 0
    /\ ret[t].pre.lines > 0
    /\ ret[t].res = "ok"

Written(u, k) ==
  \E i \in 1..Len(sink) : sink[i].tid = u /\ sink[i].seqno = k

FlushedOk(t) ==
  /\ Called(t, "flush")
  /\ ret[t].pre.st = "INITIALIZED"
  /\ ret[t].res = "ok"

\* C6: after bxilog_flush returns OK in state INITIALIZED, every record whose
\* enqueue on the data channel (by any producer thread) completed strictly
\* before the flush call started has been written to the sink.  The data
\* channel is the one of the context the flush runs in: ret[t].from[u] is the
\* number of records u had enqueued when that context was created, and
\* ret[t].mark[u] the number it had enqueued when the flush call started.
C6_FlushComplete ==
  \A t \in Threads :
    FlushedOk(t) =>
      \A u \in Threads :
        \A k \in (ret[t].from[u] + 1)..ret[t].mark[u] : Written(u, k)

\* C6, its case: a flush returned OK and another thread had enqueued a record
\* before the flush call started
C6_Witness ==
  \E t \in Threads :
    /\ FlushedOk(t)
    /\ \E u \in Threads \ {t} : ret[t].mark[u] > ret[t].from[u]

\* C7: for every producer thread P, the sink lines of the records P enqueued
\* appear in the sink in the order P enqueued them, in every interleaving with
\* other producers and with flush and control requests.
C7_ProducerFifo ==
  \A i \in 1..Len(sink) : \A j \in 1..Len(sink) :
    (i < j /\ sink[i].tid = sink[j].tid) => sink[i].seqno <= sink[j].seqno

\* C7, its case: two records of one producer in the sink, with a line of
\* another producer between them
C7_Witness ==
  \E i \in 1..Len(sink) : \E j \in 1..Len(sink) : \E k \in 1..Len(sink) :
    /\ i < j /\ j < k
    /\ sink[i].tid = sink[k].tid
    /\ sink[j].tid # sink[i].tid
    /\ sink[i].seqno < sink[k].seqno

NewLines(m) == Cardinality({i \in 1..Len(m) : m[i] = NL})

Positions(u, k) ==
  {i \in 1..Len(sink) : sink[i].tid = u /\ sink[i].seqno = k}

Lowest(P) == CHOOSE i \in P : \A j \in P : i <= j
Highest(P) == CHOOSE i \in P : \A j \in P : j <= i

RECURSIVE JoinLines(_, _)
JoinLines(lo, hi) ==
  IF lo > hi THEN << >>
  ELSE IF lo = hi THEN sink[lo].text
  ELSE sink[lo].text \o << NL >> \o JoinLines(lo + 1, hi)

\* C8: a single log call whose message contains k newline characters produces
\* exactly k+1 sink lines, written consecutively with no line of any other
\* record between them, in source order (joined by newlines they give the
\* message back), all carrying the same header fields.
C8_MultiLine ==
  \A u \in Threads : \A k \in 1..Len(sent[u]) :
    LET P == Positions(u, k) IN
      P # {} =>
        /\ P = Lowest(P)..Highest(P)
        /\ Cardinality(P) = NewLines(sent[u][k]) + 1
        /\ JoinLines(Lowest(P), Highest(P)) = sent[u][k]
        /\ \A i \in P : /\ sink[i].level = sink[Lowest(P)].level
                        /\ sink[i].whole

\* C8, its case: the record of a call with the message "a\n" is in the sink,
\* and so is a line of another thread
C8_Witness ==
  \E u \in Threads : \E k \in 1..Len(sent[u]) :
    /\ sent[u][k] = << "a", NL >>
    /\ Positions(u, k) # {}
    /\ \E i \in 1..Len(sink) : sink[i].tid # u

ForkedOk(t) ==
  /\ Called(t, "fork")
  /\ ret[t].pre.st = "INITIALIZED"
  /\ ret[t].res = "ok"

\* C9: a fork() issued in state INITIALIZED leaves the parent in INITIALIZED
\* with a running handler that accepts and writes further records, and leaves
\* the child in FINALIZED with no handler, where log calls are discarded
\* without crashing until the child calls init.
C9_ForkSurvival ==
  /\ \A t \in Threads :
       ForkedOk(t) =>
         /\ ret[t].post.st = "INITIALIZED"
         /\ ret[t].post.iht \in {"polling", "flushing"}
         /\ ret[t].post.ctx
         /\ ret[t].kid = "FINALIZED"
  /\ (child.born = "FINALIZED" /\ child.inits = 0) =>
         /\ child.st = "FINALIZED"
         /\ ~child.iht
         /\ child.lines = 0
         /\ child.alive

\* C10 as stated: if fork() is issued while the lifecycle state is
\* INITIALIZING or FINALIZING (the very first init included), the pre-fork
\* handler ends the process; no post-fork handler ever runs with the state
\* INITIALIZING or FINALIZING.
C10_ForkAborts ==
  \A t \in Threads :
    /\ (Called(t, "fork") /\ ret[t].pre.st \in {"INITIALIZING", "FINALIZING"})
         => proc = "exited"
    /\ ret[t].seen \notin {"INITIALIZING", "FINALIZING"}

\* --------------------------------------------- the registry on its own

\* bxilog_register, lines 406-426: the logger is stored in slot
\* REGISTERED_LOGGERS_NB (the array has REGISTERED_LOGGERS_ARRAY_SIZE slots,
\* never reached here)
bxilog_register(l) ==
  /\ proc = "running"
  /\ ops < MaxRegOps
  /\ ops' = ops + 1
  /\ REGISTERED_LOGGERS' =
       IF REGISTERED_LOGGERS_NB < Len(REGISTERED_LOGGERS)
       THEN [REGISTERED_LOGGERS EXCEPT ![REGISTERED_LOGGERS_NB + 1] = l]
       ELSE Append(REGISTERED_LOGGERS, l)
  /\ REGISTERED_LOGGERS_NB' = REGISTERED_LOGGERS_NB + 1
  /\ regHist' = [regHist EXCEPT !.op = "register", !.reg = @ \cup {l}]
  /\ UNCHANGED <<coreVars, proc, logLevel, sigVars, register_lock, filename,
                 fdVars>>

\* bxilog_unregister, lines 428-447: every slot below REGISTERED_LOGGERS_NB
\* that holds the logger becomes NULL, the count goes down by one when one
\* was found, and the array is freed when the count reaches zero
bxilog_unregister(l) ==
  /\ proc = "running"
  /\ ops < MaxRegOps
  /\ ops' = ops + 1
  /\ LET hits == {i \in 1..REGISTERED_LOGGERS_NB : REGISTERED_LOGGERS[i] = l}
         nb == IF hits # {} THEN REGISTERED_LOGGERS_NB - 1
               ELSE REGISTERED_LOGGERS_NB
     IN
     /\ REGISTERED_LOGGERS_NB' = nb
     /\ REGISTERED_LOGGERS' =
          IF nb = 0 THEN << >>
          ELSE [i \in 1..Len(REGISTERED_LOGGERS) |->
                  IF i \in hits THEN 0 ELSE REGISTERED_LOGGERS[i]]
  /\ regHist' = [regHist EXCEPT !.op = "unregister", !.reg = @ \ {l}]
  /\ UNCHANGED <<coreVars, proc, logLevel, sigVars, register_lock, filename,
                 fdVars>>

\* bxilog_cfg_registered, lines 455-473.  Line 456 unlocks register_lock
\* where a lock was meant, so the call runs without the lock; glibc returns 0
\* for it.  Reading logger->name through a NULL slot ends the process with
\* SIGSEGV.
bxilog_cfg_registered(cfg) ==
  /\ proc = "running"
  /\ ops < MaxRegOps
  /\ ops' = ops + 1
  /\ IF ReadsNull(cfg, REGISTERED_LOGGERS, REGISTERED_LOGGERS_NB)
     THEN /\ proc' = "killed"
          /\ UNCHANGED logLevel
     ELSE /\ proc' = proc
          /\ logLevel' = CfgItems(logLevel, cfg, REGISTERED_LOGGERS,
                                  REGISTERED_LOGGERS_NB, 1)
  /\ regHist' = [regHist EXCEPT !.op = "cfg", !.cfg = cfg, !.prev = logLevel]
  /\ UNCHANGED <<coreVars, REGISTERED_LOGGERS, REGISTERED_LOGGERS_NB, sigVars,
                 register_lock, filename, fdVars>>

NextCfg ==
  \/ \E l \in Loggers : bxilog_register(l)
  \/ \E l \in Loggers : bxilog_unregister(l)
  \/ \E cfg \in CfgLists : bxilog_cfg_registered(cfg)

\* the registry alone: the library is never initialised
SpecCfg == Init /\ [][NextCfg]_vars

\* ---- the FILE field of an output line -----------------------------------

NUL == "0"
PathChars == {"/", "a", "b"}

\* the non-empty source paths of at most MaxPath characters
Paths == UNION {[1..n -> PathChars] : n \in 1..MaxPath}

\* the bytes of a frame from the file name on: the path, its terminating NUL
\* and the function name that follows it (lines 711-715, 1263-1264)
Frame(path) == path \o << NUL, "f" >>

\* the string a char pointer to byte c (counted from 0) of the frame denotes:
\* the bytes up to the first NUL
RECURSIVE CString(_, _)
CString(frame, c) ==
  IF c >= Len(frame) \/ frame[c + 1] = NUL THEN << >>
  ELSE << frame[c + 1] >> \o CString(frame, c + 1)

\* the loop of _basename, lines 1735-1742: c runs from path_len down to 1, the
\* byte path[c] is tested, and c is one more than the index of the '/' found
\* or 0 when the loop ran out
RECURSIVE basename_c(_, _)
basename_c(path, c) ==
  IF c = 0 THEN 0
  ELSE IF path[c + 1] = "/" THEN c + 1
       ELSE basename_c(path, c - 1)

\* _basename, lines 1732-1744: the pointer path + c
basename(path, path_len) == CString(path, basename_c(path, path_len))

\* _process_data, lines 1261-1269: the file name of the frame is replaced by
\* what _basename returns for it and header->filename_len
ProcessFilename ==
  /\ ~filename.done
  /\ filename' = [filename EXCEPT
                    !.done = TRUE,
                    !.file = basename(filename.frame, filename.len)]
  /\ UNCHANGED <<coreVars, proc, ops, sigVars, REGISTERED_LOGGERS,
                 REGISTERED_LOGGERS_NB, logLevel, regHist, register_lock,
                 fdVars>>

\* a frame with any path; filename_len is the length of the path, with or
\* without its terminating NUL
InitBasename ==
  /\ InitWith(0)
  /\ FILENAME = LogFile
  /\ \E path \in Paths, n \in 0..1 :
       filename = [NoFile EXCEPT !.frame = Frame(path), !.len = Len(path) + n]

NextBasename == ProcessFilename

SpecBasename == InitBasename /\ [][NextBasename]_vars

\* ---- the size of an output line ------------------------------------------

YEAR_SIZE == 4
MONTH_SIZE == 2
DAY_SIZE == 2
HOUR_SIZE == 2
MINUTE_SIZE == 2
SECOND_SIZE == 2
SUBSECOND_SIZE == 9
PID_SIZE == 5
TID_SIZE == 5
THREAD_RANK_SIZE == 5

\* lines 191-195 (the __linux__ branch, which has the kernel thread id)
FIXED_LOG_SIZE ==
  2 + YEAR_SIZE + MONTH_SIZE + DAY_SIZE +
  1 + HOUR_SIZE + MINUTE_SIZE + SECOND_SIZE + 1 + SUBSECOND_SIZE +
  1 + PID_SIZE + 1 + TID_SIZE + 1 + THREAD_RANK_SIZE +
  1 + 1 + 1 + 1 + 1 + 1

DigitChars == << "0", "1", "2", "3", "4", "5", "6", "7", "8", "9" >>

\* the conversions %d and %u of a non-negative number
RECURSIVE Decimal(_)
Decimal(n) ==
  IF n < 10 THEN << DigitChars[n + 1] >>
  ELSE Decimal(n \div 10) \o << DigitChars[(n % 10) + 1] >>

\* the conversions %0*d, %0*u and %0*ld: zeros up to a minimum width, and
\* every digit of a number that is wider
Pad0(width, n) ==
  LET d == Decimal(n)
  IN IF Len(d) >= width THEN d
     ELSE [i \in 1..(width - Len(d)) |-> "0"] \o d

\* LOG_FMT, line 354, with the arguments _mkmsg gives it, lines 1394-1413
LOG_FMT(level, now, pid, tid, rank, progname, file, line_nb, funcname, loggername, logmsg) ==
  << level, "|" >>
  \o Pad0(YEAR_SIZE, now.tm_year + 1900)
  \o Pad0(MONTH_SIZE, now.tm_mon + 1)
  \o Pad0(DAY_SIZE, now.tm_mday)
  \o << "T" >>
  \o Pad0(HOUR_SIZE, now.tm_hour)
  \o Pad0(MINUTE_SIZE, now.tm_min)
  \o Pad0(SECOND_SIZE, now.tm_sec)
  \o << "." >>
  \o Pad0(SUBSECOND_SIZE, now.tv_nsec)
  \o << "|" >>
  \o Pad0(PID_SIZE, pid)
  \o << "." >>
  \o Pad0(TID_SIZE, tid)
  \o << "=" >>
  \o Pad0(THREAD_RANK_SIZE, rank)
  \o << ":" >> \o progname
  \o << "|" >> \o file
  \o << ":" >> \o Decimal(line_nb)
  \o << "@" >> \o funcname
  \o << "|" >> \o loggername
  \o << "|" >> \o logmsg
  \o << NL >>

\* snprintf(buf, n, ...): at most n - 1 characters and a NUL are stored, the
\* length of the whole output is returned
snprintf(n, out) ==
  [buf |-> SubSeq(out, 1, IF Len(out) < n THEN Len(out) ELSE n - 1),
   written |-> Len(out)]

\* bxilog_init, lines 553-554
PROGNAME == << "p", "r", "o", "g" >>
PROGNAME_LEN == Len(PROGNAME) + 1

\* the time of the example line of the source, line 189
detail_time ==
  [tm_year |-> 114, tm_mon |-> 8, tm_mday |-> 18, tm_hour |-> 9,
   tm_min |-> 7, tm_sec |-> 52, tv_nsec |-> 472145261]

\* process and kernel thread ids: pid_t values up to the largest pid_max of
\* Linux; the rank is a uint16_t; the line number is a positive int
Pids == {1, 99999, 4194304}
Ranks == {0, 65535}
LineNbs == {1, 999, 1000, 10000}

\* _process_data, lines 1261-1285, for one line of one record, then
\* _log_single_line, lines 1202-1215, and _mkmsg, lines 1376-1428.  The
\* frame holds the file name, the function name and the logger name each
\* with its NUL (lines 593, 683-685, 711-717); seg is one element of what
\* CutLines gives for the message.
log_single_line(pid, tid, thread_rank, path, line_nb, seg) ==
  /\ LET frame == Frame(path)
         filename_len == Len(path) + 1
         funcname == CString(frame, filename_len)
         funcname_len == Len(funcname) + 1
         loggername == LoggerName[1]
         variable_len == filename_len + funcname_len + (Len(loggername) + 1)
         file == basename(frame, filename_len)
         size == FIXED_LOG_SIZE + PROGNAME_LEN + variable_len + seg.len + 1
         out == snprintf(size,
                         LOG_FMT("O", detail_time, pid, tid, thread_rank,
                                 PROGNAME, file, line_nb, funcname,
                                 loggername, seg.text))
     IN /\ msg' = [done |-> TRUE, pid |-> pid, tid |-> tid,
                   thread_rank |-> thread_rank, path |-> path,
                   line_nb |-> line_nb, line_len |-> seg.len,
                   size |-> size, written |-> out.written, buf |-> out.buf]
        \* line 1417: assert(written <= (int)n)
        /\ proc' = IF out.written <= size THEN proc ELSE "aborted"
  /\ UNCHANGED <<coreVars, ops, sigVars, REGISTERED_LOGGERS,
                 REGISTERED_LOGGERS_NB, logLevel, regHist, register_lock,
                 filename, FILENAME, closedFds>>

\* one line of one record is rendered in a behaviour
NextMkmsg ==
  /\ ~msg.done
  /\ \E pid \in Pids, tid \in Pids, thread_rank \in Ranks, path \in Paths,
        line_nb \in LineNbs, logmsg \in Msgs :
       LET segs == CutLines(logmsg, 1, 1, 0)
       IN \E i \in DOMAIN segs :
            log_single_line(pid, tid, thread_rank, path, line_nb, segs[i])

SpecMkmsg == Init /\ [][NextMkmsg]_vars

\* ---- the level of a logger -----------------------------------------------

\* the levels in the order of their values, as LOG_LEVEL_STR (line 349) is
\* indexed by them: BXILOG_PANIC is 0 and BXILOG_LOWEST is 11
LevelNames == << "panic", "alert", "critical", "error", "warning", "notice",
                 "output", "info", "debug", "fine", "trace", "lowest" >>

\* the value of a level
LevelValue(name) == (CHOOSE i \in DOMAIN LevelNames : LevelNames[i] = name) - 1

\* bxilog_set_level, line 772: assert(NULL != logger && BXILOG_CRITICAL >= level)
SetLevelAccepts(level) == LevelValue("critical") >= LevelValue(level)

\* bxilog_get_level, lines 766-769
bxilog_get_level(l) == logLevel[l]

\* bxilog_set_level, lines 771-774: the assertion, then the assignment
bxilog_set_level(l, level) ==
  /\ proc = "running"
  /\ ops < MaxRegOps
  /\ ops' = ops + 1
  /\ IF SetLevelAccepts(level)
     THEN /\ logLevel' = [logLevel EXCEPT ![l] = level]
          /\ proc' = proc
     ELSE /\ proc' = "aborted"
          /\ UNCHANGED logLevel
  /\ regHist' = [regHist EXCEPT !.op = "set_level",
                                !.cfg = << [logger |-> l, level |-> level] >>]
  /\ UNCHANGED <<coreVars, REGISTERED_LOGGERS, REGISTERED_LOGGERS_NB, sigVars,
                 register_lock, filename, fdVars>>

NextLevel ==
  \E l \in Loggers, i \in DOMAIN LevelNames : bxilog_set_level(l, LevelNames[i])

SpecLevel == Init /\ [][NextLevel]_vars

\* ---- the registry calls made by several threads ------------------------

\* what a registry call leaves alone
regFrame == <<lifecycleVars, ihtVars, chanVars, outVars, via, cur, lerr,
              tsdVars, histVars, ret, nExit, child, faults, sigVars,
              filename, fdVars>>

\* pthread_mutex_lock(&register_lock), lines 408 and 430: the caller waits
\* until the mutex is free and then owns it
register_lock_lock(t, body) ==
  /\ At(t, "idle") /\ ops < MaxRegOps
  /\ register_lock = 0
  /\ register_lock' = t
  /\ pc' = [pc EXCEPT ![t] = body]
  /\ ops' = ops + 1
  /\ UNCHANGED <<regFrame, proc, REGISTERED_LOGGERS, REGISTERED_LOGGERS_NB,
                 logLevel, regHist>>

\* bxilog_register, lines 409-425: the slot is written, the count goes up and
\* the mutex is unlocked
RegisterBody(t, l) ==
  /\ At(t, "reg_body")
  /\ REGISTERED_LOGGERS' =
       IF REGISTERED_LOGGERS_NB < Len(REGISTERED_LOGGERS)
       THEN [REGISTERED_LOGGERS EXCEPT ![REGISTERED_LOGGERS_NB + 1] = l]
       ELSE Append(REGISTERED_LOGGERS, l)
  /\ REGISTERED_LOGGERS_NB' = REGISTERED_LOGGERS_NB + 1
  /\ regHist' = [regHist EXCEPT !.op = "register", !.reg = @ \cup {l}]
  /\ register_lock' = 0
  /\ pc' = [pc EXCEPT ![t] = "idle"]
  /\ UNCHANGED <<regFrame, proc, ops, logLevel>>

\* bxilog_unregister, lines 431-446: the slots are cleared, the count goes
\* down, the array is freed at zero and the mutex is unlocked
UnregisterBody(t, l) ==
  /\ At(t, "unreg_body")
  /\ LET hits == {i \in 1..REGISTERED_LOGGERS_NB : REGISTERED_LOGGERS[i] = l}
         nb == IF hits # {} THEN REGISTERED_LOGGERS_NB - 1
               ELSE REGISTERED_LOGGERS_NB
     IN
     /\ REGISTERED_LOGGERS_NB' = nb
     /\ REGISTERED_LOGGERS' =
          IF nb = 0 THEN << >>
          ELSE [i \in 1..Len(REGISTERED_LOGGERS) |->
                  IF i \in hits THEN 0 ELSE REGISTERED_LOGGERS[i]]
  /\ regHist' = [regHist EXCEPT !.op = "unregister", !.reg = @ \ {l}]
  /\ register_lock' = 0
  /\ pc' = [pc EXCEPT ![t] = "idle"]
  /\ UNCHANGED <<regFrame, proc, ops, logLevel>>

\* bxilog_cfg_registered, line 456: pthread_mutex_unlock where the lock was
\* meant.  The caller does not own the mutex, which POSIX leaves undefined
\* for a default mutex: the call returns 0 and the mutex is free afterwards,
\* also when another thread had locked it, or it is left as it was.
CfgUnlock(t) ==
  /\ At(t, "idle") /\ ops < MaxRegOps
  /\ register_lock' \in {0, register_lock}
  /\ pc' = [pc EXCEPT ![t] = "cfg_body"]
  /\ ops' = ops + 1
  /\ UNCHANGED <<regFrame, proc, REGISTERED_LOGGERS, REGISTERED_LOGGERS_NB,
                 logLevel, regHist>>

\* bxilog_cfg_registered, lines 457-472: the levels are written and the mutex
\* is unlocked once more
CfgBody(t, cfg) ==
  /\ At(t, "cfg_body")
  /\ IF ReadsNull(cfg, REGISTERED_LOGGERS, REGISTERED_LOGGERS_NB)
     THEN /\ proc' = "killed"
          /\ UNCHANGED <<logLevel, register_lock, pc>>
     ELSE /\ proc' = proc
          /\ logLevel' = CfgItems(logLevel, cfg, REGISTERED_LOGGERS,
                                  REGISTERED_LOGGERS_NB, 1)
          /\ register_lock' = 0
          /\ pc' = [pc EXCEPT ![t] = "idle"]
  /\ regHist' = [regHist EXCEPT !.op = "cfg", !.cfg = cfg, !.prev = logLevel]
  /\ UNCHANGED <<regFrame, ops, REGISTERED_LOGGERS, REGISTERED_LOGGERS_NB>>

NextReg ==
  \/ \E t \in Threads : register_lock_lock(t, "reg_body")
  \/ \E t \in Threads : register_lock_lock(t, "unreg_body")
  \/ \E t \in Threads, l \in Loggers : RegisterBody(t, l)
  \/ \E t \in Threads, l \in Loggers : UnregisterBody(t, l)
  \/ \E t \in Threads : CfgUnlock(t)
  \/ \E t \in Threads, cfg \in CfgLists : CfgBody(t, cfg)

\* the registry used by the threads of the business code
SpecReg == Init /\ [][NextReg]_vars

\* ------------------------------------------ fatal signals and assertions

\* the record _iht_log writes for a signal, lines 1474-1512: a line of the
\* handler itself
SignalLine == [level |-> "critical", tid |-> 0, seqno |-> 0,
               text |-> InternalMsg, whole |-> TRUE]

\* SIGSEGV is raised in producer thread t while the handlers of
\* bxilog_install_sighandler, lines 855-884, are installed: _sig_handler,
\* lines 1747-1761.  An entry that reads FATAL_ERROR_IN_PROGRESS as set ends
\* the process through error(); one that reads it as clear goes on to the
\* store of line 1762.  The test and the store are two statements on a
\* volatile sig_atomic_t: another thread may run between them.
\* The call remembers how many records each thread had enqueued.
raise_segv(t) ==
  /\ Idle(t)
  /\ IsInitialized(State)
  /\ ops' = ops + 1
  /\ IF FATAL_ERROR_IN_PROGRESS
     THEN /\ proc' = "exited"
          /\ ret' = [ret EXCEPT ![t] = [Call(t, "segv") EXCEPT !.res = "error"]]
          /\ UNCHANGED <<FATAL_ERROR_IN_PROGRESS, errOut, pc, cur>>
     ELSE /\ proc' = proc
          /\ pc' = [pc EXCEPT ![t] = "sig_set"]
          /\ ret' = [ret EXCEPT ![t] = [Call(t, "segv") EXCEPT
                                         !.mark = seq, !.from = base]]
          /\ UNCHANGED <<FATAL_ERROR_IN_PROGRESS, errOut, cur>>
  /\ UNCHANGED <<lifecycleVars, ihtVars, chanVars, sink, warned, via, lerr,
                 tsdVars, histVars, nExit, child, faults, regVars, sfd,
                 synced>>

\* _sig_handler, lines 1762-1766: the flag is set by a plain store after the
\* test of line 1758, the signal and its backtrace are written to stderr and
\* the CRITICAL record is submitted
SigSet(t) ==
  /\ At(t, "sig_set")
  /\ FATAL_ERROR_IN_PROGRESS' = TRUE
  /\ errOut' = Append(errOut, "signal")
  /\ pc' = [pc EXCEPT ![t] = "vlog"]
  /\ cur' = [cur EXCEPT ![t] = Internal("critical", "sig_end")]
  /\ UNCHANGED <<lifecycleVars, ihtVars, chanVars, sink, warned, via, lerr,
                 tsdVars, histVars, ret, nExit, child, ops, faults, regVars,
                 sfd, synced, proc>>

\* _sig_handler, line 1767: _end_iht, lines 1619-1635: exit? is sent, unless
\* the REQ socket still awaits a reply, and the thread's tsd is freed
SigEnd(t) ==
  /\ At(t, "sig_end")
  /\ IF GetTsdAborts(t)
     THEN /\ proc' = "aborted"
          /\ UNCHANGED <<ctlReq, ctlRep, tsd, ctlBusy, nExit, pc>>
     ELSE /\ proc' = proc
          /\ ctlReq' = [ctlReq EXCEPT ![t] = IF CanRequest(t) /\ HandlerListens
                                             THEN "exit?" ELSE @]
          /\ ctlRep' = [ctlRep EXCEPT ![t] = "none"]
          /\ tsd' = [tsd EXCEPT ![t] = "freed"]
          /\ ctlBusy' = [ctlBusy EXCEPT ![t] = FALSE]
          /\ nExit' = nExit + 1
          /\ pc' = [pc EXCEPT ![t] = "sig_sleep"]
  /\ UNCHANGED <<lifecycleVars, ihtVars, pipes, outVars, via, cur, lerr, stale,
                 histVars, ret, child, ops, faults, regVars, sigVars>>

\* _sig_handler, lines 1768-1799: the one-second sleep is over, the default
\* disposition is restored and the signal is raised again: the process is
\* terminated by it
SigRaise(t) ==
  /\ At(t, "sig_sleep")
  /\ proc' = "killed"
  /\ pc' = [pc EXCEPT ![t] = "idle"]
  /\ UNCHANGED <<lifecycleVars, ihtVars, chanVars, outVars, via, cur, lerr,
                 tsdVars, histVars, nExit, child, ops, faults, regVars,
                 sigVars>>
  /\ Return(t, "SIGSEGV")

\* a signal of the set of _get_iht_signals_fd, lines 1431-1455, becomes
\* pending for the handler thread: its signal descriptor is readable
SfdReadable ==
  /\ proc = "running"
  /\ iht = "polling"
  /\ sfd = "none"
  /\ sfd' = "pending"
  /\ UNCHANGED <<coreVars, proc, ops, regVars, FATAL_ERROR_IN_PROGRESS,
                 synced>>

\* _iht_main, lines 1116-1118: the signal descriptor is readable: _flush_iht
\* starts
IhtSignal ==
  /\ proc = "running"
  /\ iht = "polling"
  /\ sfd = "pending"
  /\ iht' = "flushing"
  /\ ihtCmd' = [cmd |-> "signal", from |-> 0]
  /\ UNCHANGED <<lifecycleVars, ihtErr, chanVars, outVars, pc, via, cur, lerr,
                 tsdVars, histVars, ret, nExit, proc, child, ops, faults,
                 regVars, sigVars>>

\* _flush_iht, lines 1161-1172, ends with _sync; then _process_signal, lines
\* 1342-1374: the descriptor is read, _iht_log writes the critical record,
\* the signal mask is emptied, the default disposition is restored and the
\* signal is raised in the handler thread, which ends the process.  `synced`
\* is the length of the sink at the last _sync.
IhtProcessSignal ==
  /\ proc = "running"
  /\ iht = "flushing"
  /\ ihtCmd.cmd = "signal"
  /\ AllEmpty
  /\ synced' = Len(sink)
  /\ sink' = Append(sink, SignalLine)
  /\ sfd' = "raised"
  /\ proc' = "killed"
  /\ UNCHANGED <<lifecycleVars, ihtVars, chanVars, errOut, warned, pc, via,
                 cur, lerr, tsdVars, histVars, ret, nExit, child, ops, faults,
                 regVars, FATAL_ERROR_IN_PROGRESS>>

\* bxilog_assert (assert.c, lines 50-66) with `holds` the asserted result, and
\* bxilog_abort_ifko (assert.c, lines 69-79) with `holds` telling that the
\* error is OK: nothing is done when it holds; else bxilog_exit, lines
\* 779-791, makes the log call at level critical, which the logger is taken to let
\* through
ExitUnless(t, op, holds) ==
  /\ Idle(t)
  /\ ops' = ops + 1
  /\ pc' = [pc EXCEPT ![t] = IF holds THEN @ ELSE "vlog"]
  /\ cur' = [cur EXCEPT ![t] = IF holds THEN @
                               ELSE Internal("critical", "exit_flush")]
  /\ UNCHANGED <<lifecycleVars, ihtVars, chanVars, outVars, via, lerr, tsdVars,
                 histVars, nExit, proc, child, faults, regVars, sigVars>>
  /\ ret' = [ret EXCEPT ![t] =
               [Call(t, op) EXCEPT
                  !.arg = IF holds THEN "holds" ELSE "fails",
                  !.res = IF holds THEN "ok" ELSE "pending"]]

bxilog_assert(t, result) == ExitUnless(t, "assert", result)

bxilog_abort_ifko(t, isok) == ExitUnless(t, "abort_ifko", isok)

MutExitFlush(t) ==
  /\ At(t, "exit_flush")
  /\ pc' = [pc EXCEPT ![t] = "exit_now"]
  /\ UNCHANGED <<lifecycleVars, ihtVars, chanVars, outVars, via, cur, lerr,
                 tsdVars, histVars, ret, nExit, proc, child, ops, faults,
                 regVars, sigVars>>

\* bxilog_exit, lines 796-799: the sleep, then bxilog_flush, lines 605-607: a
\* no-op unless INITIALIZED, else the DEBUG call.  The call record notes
\* whether the critical record has been enqueued.
ExitFlush(t) ==
  /\ At(t, "exit_flush")
  /\ pc' = [pc EXCEPT ![t] = IF IsInitialized(State) THEN "vlog"
                             ELSE "exit_now"]
  /\ cur' = [cur EXCEPT ![t] = IF IsInitialized(State)
                               THEN Internal("debug", "exit_send")
                               ELSE @]
  /\ ret' = [ret EXCEPT ![t].did = IF seq[t] > ret[t].pre.seq
                                   THEN << "critical" >> ELSE << >>]
  /\ UNCHANGED <<lifecycleVars, ihtVars, chanVars, outVars, via, lerr, tsdVars,
                 histVars, nExit, proc, child, ops, faults, regVars, sigVars>>

\* bxilog_flush called by bxilog_exit, lines 608-613: _get_tsd, the flush?
\* request
ExitSend(t) ==
  /\ At(t, "exit_send")
  /\ IF GetTsdAborts(t)
     THEN /\ proc' = "aborted"
          /\ UNCHANGED <<tsd, ctlBusy, pc, ctlReq, ret>>
     ELSE /\ tsd' = [tsd EXCEPT ![t] = TsdAfterGet(t)]
          /\ ctlBusy' = [ctlBusy EXCEPT ![t] = TRUE]
          /\ ctlReq' = [ctlReq EXCEPT ![t] = IF HandlerListens
                                             THEN "flush?" ELSE @]
          /\ pc' = [pc EXCEPT ![t] = "exit_wait"]
          /\ proc' = proc
          /\ ret' = [ret EXCEPT ![t].did = Append(@, "flush?")]
  /\ UNCHANGED <<lifecycleVars, ihtVars, pipes, ctlRep, outVars, via, cur,
                 lerr, stale, histVars, nExit, child, ops, faults, regVars,
                 sigVars>>

\* bxilog_flush called by bxilog_exit, lines 614-629: the reply; its result
\* is destroyed by bxilog_exit, line 799
ExitRecv(t) ==
  /\ At(t, "exit_wait")
  /\ ctlRep[t] # "none"
  /\ ctlRep' = [ctlRep EXCEPT ![t] = "none"]
  /\ ctlBusy' = [ctlBusy EXCEPT ![t] = FALSE]
  /\ pc' = [pc EXCEPT ![t] = "exit_now"]
  /\ ret' = [ret EXCEPT ![t].did = IF ctlRep[t] = "flushed!"
                                   THEN Append(@, "flushed!") ELSE @]
  /\ UNCHANGED <<lifecycleVars, ihtVars, pipes, ctlReq, outVars, via, cur,
                 lerr, tsd, stale, histVars, nExit, proc, child, ops, faults,
                 regVars, sigVars>>

\* bxilog_exit, line 800: exit(exit_code)
ExitNow(t) ==
  /\ At(t, "exit_now")
  /\ proc' = "exited"
  /\ pc' = [pc EXCEPT ![t] = "idle"]
  /\ UNCHANGED <<lifecycleVars, ihtVars, chanVars, outVars, via, cur, lerr,
                 tsdVars, histVars, nExit, child, ops, faults, regVars,
                 sigVars>>
  /\ ret' = [ret EXCEPT ![t].res = "EX_SOFTWARE", ![t].post = SnapNext(t),
                        ![t].did = Append(@, "exit")]

\* SIGINT or SIGTERM, which bxilog_install_sighandler, lines 855-884, also
\* hands to _sig_handler, is delivered to producer thread t while it waits
\* for the reply to a control request: _sig_handler, lines 1747-1765, runs on
\* top of the interrupted call, which never resumes
SigInterrupt(t) ==
  /\ proc = "running"
  /\ pc[t] \in {"init_wait", "flush_wait"}
  /\ IF FATAL_ERROR_IN_PROGRESS
     THEN /\ proc' = "exited"
          /\ ret' = [ret EXCEPT ![t] = [Call(t, "sigint") EXCEPT !.res = "error"]]
          /\ UNCHANGED <<FATAL_ERROR_IN_PROGRESS, errOut, pc, cur>>
     ELSE /\ proc' = proc
          /\ pc' = [pc EXCEPT ![t] = "sig_set"]
          /\ ret' = [ret EXCEPT ![t] = [Call(t, "sigint") EXCEPT
                                         !.arg = "awaiting"]]
          /\ UNCHANGED <<FATAL_ERROR_IN_PROGRESS, errOut, cur>>
  /\ UNCHANGED <<lifecycleVars, ihtVars, chanVars, sink, warned, via, lerr,
                 tsdVars, histVars, nExit, child, ops, faults, regVars, sfd,
                 synced>>

\* what the business code does around a fatal event: initialisation and log
\* calls
UserStep(t) ==
  \/ bxilog_init(t) \/ InitLock(t) \/ InitHandshake(t) \/ InitReady(t)
  \/ bxilog_log(t, "output", InternalMsg)
  \/ VlogEnter(t) \/ LogRetry(t) \/ LogSend(t)

\* the library with fatal signals, in a producer thread and on the handler's
\* signal descriptor
NextSignal ==
  \/ \E t \in Threads : UserStep(t)
  \/ IhtStep
  \/ \E t \in Threads : raise_segv(t) \/ SigSet(t) \/ SigEnd(t)
                          \/ SigRaise(t)
  \/ SfdReadable \/ IhtSignal \/ IhtProcessSignal

SpecSignal == Init /\ [][NextSignal]_vars

\* the library with flush, tear-down and the signal handler of a producer
\* thread, between its calls and while it waits for a control reply
NextIntr ==
  \/ \E t \in Threads : UserStep(t)
  \/ \E t \in Threads : bxilog_flush(t) \/ FlushSend(t) \/ FlushRecv(t)
  \/ \E t \in Threads : bxilog_finalize(t) \/ FinEnter(t) \/ FinJoin(t)
                          \/ FinCtx(t)
  \/ IhtStep
  \/ \E t \in Threads : raise_segv(t) \/ SigInterrupt(t) \/ SigSet(t)
                          \/ SigEnd(t) \/ SigRaise(t)

SpecIntr == Init /\ [][NextIntr]_vars

\* the library logging to standard output or standard error, initialised and
\* torn down again
InitStd ==
  /\ InitWith(0)
  /\ filename = NoFile
  /\ FILENAME \in {"-", "+"}

NextStd ==
  \/ \E t \in Threads : UserStep(t)
  \/ \E t \in Threads : bxilog_finalize(t) \/ FinEnter(t) \/ FinJoin(t)
                          \/ FinCtx(t)
  \/ IhtStep

SpecStd == InitStd /\ [][NextStd]_vars

\* the handler while system calls keep failing: initialisation, log and
\* flush calls of the business code, the handler
InitErrs == InitWith(MaxErrs) /\ filename = NoFile /\ FILENAME = LogFile

NextErrs ==
  \/ \E t \in Threads : UserStep(t)
  \/ \E t \in Threads : bxilog_flush(t) \/ FlushSend(t) \/ FlushRecv(t)
  \/ IhtStep

SpecErrs == InitErrs /\ [][NextErrs]_vars

\* the same calls with one failing system call, every thread that can take a
\* step of a call it has begun taking it eventually, and so the handler
SpecStart ==
  /\ InitFault /\ [][NextErrs]_vars
  /\ \A t \in Threads : WF_vars(ThreadStep(t))
  /\ WF_vars(IhtStep)

\* the library with assertions, and bxilog_finalize
NextAssert ==
  \/ \E t \in Threads : UserStep(t)
  \/ \E t \in Threads : bxilog_finalize(t) \/ FinEnter(t) \/ FinJoin(t)
                          \/ FinCtx(t)
  \/ IhtStep
  \/ \E t \in Threads, b \in BOOLEAN :
       bxilog_assert(t, b) \/ bxilog_abort_ifko(t, b)
  \/ \E t \in Threads : ExitFlush(t) \/ ExitSend(t) \/ ExitRecv(t) \/ ExitNow(t)

SpecAssert == Init /\ [][NextAssert]_vars

\* C11 as stated: a fork() issued in state INITIALIZED never deadlocks: with
\* any number of producer threads that own per-thread channel handles, the
\* pre-fork tear-down (exit? request, handler join, context destruction)
\* eventually completes and the parent's post-fork handler eventually reaches
\* INITIALIZED.
C11_ForkNeverDeadlocks ==
  \A t \in Threads :
    (Called(t, "fork") /\ ret[t].pre.st = "INITIALIZED"
                       /\ ret[t].res = "pending")
      ~> (ForkedOk(t) /\ ret[t].post.st = "INITIALIZED")

Edge(a, b) == << a, b >>

\* the changes of the parent's state that the documented state machine has
DocumentedEdges ==
  { Edge("UNSET", "INITIALIZING"), Edge("FINALIZED", "INITIALIZING"),
    Edge("INITIALIZING", "INITIALIZED"), Edge("INITIALIZED", "FINALIZING"),
    Edge("FINALIZING", "FINALIZED"), Edge("FINALIZED", "FORKED"),
    Edge("FORKED", "INITIALIZING") }

\* the changes the amended statement has: the pre-fork handler goes from
\* FINALIZING to FORKED, the parent's post-fork handler from FORKED to
\* FINALIZED, and a rejection inside _init or _finalize goes to ILLEGAL
AmendedEdges ==
  { Edge("UNSET", "INITIALIZING"), Edge("FINALIZED", "INITIALIZING"),
    Edge("INITIALIZING", "INITIALIZED"), Edge("INITIALIZED", "FINALIZING"),
    Edge("FINALIZING", "FINALIZED"), Edge("FINALIZING", "FORKED"),
    Edge("FORKED", "FINALIZED") }
  \cup { Edge(s, "ILLEGAL") : s \in States \ {"UNSET", "ILLEGAL"} }

\* the state the child is born in, given the parent's state at the fork
ChildBornIn(s) == IF s = "FORKED" THEN "FINALIZED" ELSE s

\* a step of a fork() that found the state UNSET or FINALIZED and a change
\* of the state never come together; the child starts in the state that
\* `born` gives
ForkElsewhere ==
  /\ \A t \in Threads :
       (/\ pc[t] \in {"fork_sys", "fork_post"}
        /\ pc'[t] # pc[t]
        /\ State \in {"UNSET", "FINALIZED"}) => State' = State
  /\ (child.st = "none" /\ child'.st # "none") =>
       child'.st = ChildBornIn(State)

StartsWith(name, prefix) ==
  Len(prefix) <= Len(name) /\ SubSeq(name, 1, Len(prefix)) = prefix

RulesFor(l, cfg) ==
  {i \in 1..Len(cfg) : StartsWith(LoggerName[l], cfg[i].prefix)}

LastRuleLevel(l, cfg, prev) ==
  IF RulesFor(l, cfg) = {} THEN prev[l]
  ELSE cfg[Highest(RulesFor(l, cfg))].level

\* C13 as stated: after bxilog_cfg_registered(n, cfg), every registered
\* logger whose name starts with at least one rule prefix has the level of
\* the last such rule in list order (the empty prefix matches all), every
\* logger matched by no rule keeps its level, and with the rules ("",
\* lowest), ("a", output), ("a.b", warning) the loggers a.logger and
\* a.c.logger end at output, a.b.logger at warning and my.logger at lowest.
C13_CfgRegistered ==
  regHist.op = "cfg" =>
    /\ proc = "running"
    /\ \A l \in regHist.reg :
         logLevel[l] = LastRuleLevel(l, regHist.cfg, regHist.prev)
    /\ (regHist.cfg = ExampleCfg /\ regHist.reg = Loggers) =>
         logLevel = << "lowest", "output", "warning", "output" >>

\* C14: a log call made in INITIALIZED whose send found the data channel
\* full for more than RETRIES_MAX retries stays in the send until its record
\* is enqueued, and when it returns success the record has been enqueued: a
\* success is never returned for a record that did not enter the channel.
C14_NoSilentDrop ==
  \A t \in Threads :
    (ret[t].op = "log" /\ ret[t].late > 0) =>
      /\ ret[t].pre.st = "INITIALIZED"
      /\ seq[t] < ret[t].late => pc[t] = "log_send" /\ ret[t].res = "pending"
      /\ ret[t].res = "ok" =>
           /\ ret[t].post.seq >= ret[t].late
           /\ Len(sent[t]) >= ret[t].late

\* a log call that ran out of retries has returned success
C14_Witness ==
  \E t \in Threads :
    /\ ret[t].op = "log" /\ ret[t].late = ret[t].pre.seq + 1
    /\ ret[t].res = "ok"

\* the tear-down of thread t has sent exit? and the handler has left its loop
\* and closed the sink since
ExitServed(t) ==
  /\ ret[t].op \in {"finalize", "fork"}
  /\ ret[t].pre.st = "INITIALIZED"
  /\ \/ pc[t] = "fin_join" /\ iht = "exited"
     \/ pc[t] \in {"fin_ctx", "fork_sys", "fork_post"}
     \/ ret[t].res # "pending"

\* C15: every record whose enqueue on the data channel completed before the
\* tear-down (bxilog_finalize, or the one fork() runs) sent the exit? request
\* is in the sink once the handler has closed the sink, and so before the
\* tear-down returns.
C15_DrainBeforeExit ==
  \A t \in Threads :
    ExitServed(t) =>
      \A u \in Threads :
        \A k \in (ret[t].from[u] + 1)..ret[t].mark[u] : Written(u, k)

\* C15, its case: bxilog_finalize returned OK and another thread had enqueued
\* a record before exit? was sent
C15_Witness ==
  \E t \in Threads :
    /\ ExitServed(t) /\ ret[t].op = "finalize" /\ ret[t].res = "ok"
    /\ \E u \in Threads \ {t} : ret[t].mark[u] > ret[t].from[u]

C19_FlushedOnlyAfterSync ==
  \A t \in Threads :
    (ret[t].op = "flush" /\ ret[t].sync = "fail") =>
      /\ ctlRep[t] # "flushed!"
      /\ ret[t].res # "ok"

\* C16 as stated: a SIGSEGV raised in a producer thread in state INITIALIZED,
\* with the signal handler installed, results in this order in: every record
\* enqueued before the signal being in the sink, then one critical record
\* describing the signal being in the sink, then the process being
\* terminated by SIGSEGV under its default disposition.
C16_SegvOrder ==
  \A t \in Threads :
    (ret[t].op = "segv" /\ ret[t].res = "SIGSEGV") =>
      /\ proc = "killed"
      /\ \A u \in Threads :
           \A k \in (ret[t].from[u] + 1)..ret[t].mark[u] : Written(u, k)
      /\ \E i \in 1..Len(sink) :
           /\ sink[i].tid = t /\ sink[i].level = "critical"
           /\ sink[i].seqno > ret[t].pre.seq
           /\ \A u \in Threads :
                \A k \in (ret[t].from[u] + 1)..ret[t].mark[u] :
                  \A j \in Positions(u, k) : j < i

\* C20 as stated: when the signal descriptor becomes readable the handler
\* drains all pending data records to the sink, writes one critical record
\* describing the signal, durably flushes the sink, resets the signal mask
\* and the disposition, and raises the signal again: a durable flush of the
\* sink happens after the critical record is written and before the signal
\* is raised again.
C20_SignalOrder ==
  sfd = "raised" =>
    /\ AllEmpty
    /\ sink # << >> /\ sink[Len(sink)] = SignalLine
    /\ synced >= Len(sink)
    /\ proc = "killed"

\* the steps of a failed assertion, in the order they were made, once the
\* process has exited: "critical" (the critical record entered the data
\* channel), "flush?" (the flush request was sent), "flushed!" (its reply
\* came), "exit"
FullExit == << "critical", "flush?", "flushed!", "exit" >>

\* the same steps when the library was not INITIALIZED at the log call, at
\* the flush call, or at both: those calls are then no-ops
PartialExits == { << "critical", "exit" >>, << "flush?", "flushed!", "exit" >>,
                  << "exit" >> }

\* the library was INITIALIZED when the call started and when it ended, and
\* no tear-down began in between
InitializedThroughout(t) ==
  /\ ret[t].pre.st = "INITIALIZED" /\ ret[t].post.st = "INITIALIZED"
  /\ ret[t].post.exits = ret[t].pre.exits

\* C17: bxilog_assert with a false result logs one critical record, then
\* requests a flush of the handler, then exits the process with EX_SOFTWARE,
\* in that order (the log call and the flush call are the library's, so each
\* acts only while the state is INITIALIZED; when it is INITIALIZED all
\* along, the critical record is in the sink when the process exits); with a
\* true result it logs nothing, requests no flush and returns.
\* bxilog_abort_ifko does the same, keyed on whether the error is non-OK.
C17_AssertOrder ==
  \A t \in Threads :
    ret[t].op \in {"assert", "abort_ifko"} =>
      /\ ret[t].arg = "holds" =>
           /\ ret[t].res = "ok" /\ pc[t] = "idle"
           /\ seq[t] = ret[t].pre.seq /\ ret[t].did = << >>
           /\ ctlReq[t] = "none"
      /\ ret[t].arg = "fails" =>
           /\ ret[t].res \in {"pending", "EX_SOFTWARE"}
           /\ ret[t].res = "pending" =>
                pc[t] \in {"vlog", "log_send", "exit_flush", "exit_send",
                           "exit_wait", "exit_now"}
           /\ ret[t].res = "EX_SOFTWARE" =>
                /\ proc = "exited"
                /\ ret[t].did \in PartialExits \cup {FullExit}
                /\ InitializedThroughout(t) =>
                     /\ ret[t].did = FullExit
                     /\ \E i \in 1..Len(sink) :
                          /\ sink[i].tid = t /\ sink[i].level = "critical"
                          /\ sink[i].seqno = ret[t].pre.seq + 1

\* C17, its case: a failed assertion made in state INITIALIZED has ended the
\* process
C17_Witness ==
  \E t \in Threads :
    /\ ret[t].op = "assert" /\ ret[t].arg = "fails"
    /\ ret[t].res = "EX_SOFTWARE" /\ InitializedThroughout(t)
    /\ ret[t].did = FullExit

\* C21: each producer thread has at most one control request outstanding:
\* in every interleaving of flush, finalize and the signal handler running
\* on the thread, a request (ready?, flush? or exit?) enters the control
\* channel on the thread's handle only when the handle awaits no reply, and
\* the channel never holds a request and a reply of the same thread.
C21_OneOutstanding ==
  [][\A t \in Threads :
       /\ (ctlReq'[t] # "none" /\ ctlReq'[t] # ctlReq[t]) =>
            (~ctlBusy[t] \/ tsd[t] = "none")
       /\ ~(ctlReq'[t] # "none" /\ ctlRep'[t] # "none")]_vars

\* C21, its case: the signal handler has run _end_iht on a thread that was
\* interrupted while its flush? or ready? request was unanswered
C21_Witness ==
  \E t \in Threads :
    /\ ret[t].op = "sigint" /\ ret[t].arg = "awaiting"
    /\ pc[t] = "sig_sleep" /\ tsd[t] = "freed"

\* the handler reads the request of thread t in this step
ReadsRequest(t) ==
  /\ iht = "polling" /\ ctlReq[t] # "none" /\ ctlReq'[t] = "none"
  /\ pc' = pc /\ iht' # "exited"

\* C22: for each control request the handler reads it sends exactly one
\* ready! for ready?, exactly one flushed! for flush? once no data is
\* pending, and no reply for exit?, after which its loop ends; it sends no
\* reply that does not answer a request and does not poll again after exit?.
C22_OneReplyPerRequest ==
  [][\A t \in Threads :
       /\ ReadsRequest(t) =>
            /\ ctlReq[t] = "ready?" =>
                 ctlRep'[t] = "ready!" /\ iht' \in {"polling", "quitting"}
            /\ ctlReq[t] \in {"flush?", "exit?"} =>
                 /\ ihtCmd' = [cmd |-> ctlReq[t], from |-> t]
                 /\ iht' = "flushing" /\ ctlRep' = ctlRep
       /\ (ctlRep'[t] # "none" /\ ctlRep'[t] # ctlRep[t]) =>
            \/ ctlRep'[t] = "ready!" /\ ReadsRequest(t) /\ ctlReq[t] = "ready?"
            \/ /\ ctlRep'[t] = "flushed!"
               /\ ihtCmd = [cmd |-> "flush?", from |-> t]
               /\ \A u \in Threads : pipes[u] = << >>
               /\ ihtCmd' = NoCmd
       /\ (ihtCmd = [cmd |-> "flush?", from |-> t] /\ ihtCmd' # ihtCmd) =>
            /\ tsd[t] = "live" => ctlRep'[t] = "flushed!"
            /\ iht' \in {"polling", "quitting"}
       /\ (ihtCmd = [cmd |-> "exit?", from |-> t] /\ ihtCmd' # ihtCmd) =>
            iht' = "quitting" /\ ctlRep' = ctlRep
       /\ iht = "quitting" => iht' \in {"quitting", "exited"}]_vars

\* C22, its case: the handler has answered a flush? request and polls again
C22_Witness ==
  \E t \in Threads :
    /\ ret[t].op = "flush" /\ ctlRep[t] = "flushed!"
    /\ ihtCmd = NoCmd /\ iht = "polling"

\* the handler ends an event of its main loop in this step (an exit? request
\* ends the loop by itself)
EventEnds ==
  /\ iht \in {"polling", "flushing"} /\ ihtCmd.cmd # "exit?"
  /\ iht' \in {"polling", "quitting"}
  /\ iht' # iht \/ ihtErr' # ihtErr \/ faults' # faults

\* C23: after an event of its main loop the handler leaves the loop with a
\* "too many errors" error exactly when the depth of its error chain exceeds
\* MAX_DEPTH_ERR = 5 (the chain then holds at least 6 errors and the new
\* one); with a depth of 1 to 5 it prints the errors to standard error and
\* keeps serving.
C23_TooManyErrors ==
  [][EventEnds =>
       /\ iht' = "quitting" => ihtErr' >= MAX_DEPTH_ERR + 2
       /\ iht' = "polling" =>
            /\ ihtErr' <= MAX_DEPTH_ERR
            /\ ihtErr' >= 1 => warned']_vars

\* C23, its case: the handler has left its loop on too many errors
C23_Witness == iht = "quitting" /\ ihtErr = MAX_DEPTH_ERR + 2

\* C25 as stated: when write() of a rendered line to the sink writes fewer
\* bytes than the line has (a short write, a zero-byte write or a failed
\* write), the handler writes an explanatory line and then the complete line
\* to standard error.  A line the sink holds in part is the trace of a short
\* write.
C25_ShortWriteFallback ==
  \A i \in 1..Len(sink) :
    ~sink[i].whole =>
      \E k \in 1..(Len(errOut) \div 2) :
        /\ errOut[2 * k - 1] = "note"
        /\ errOut[2 * k] = [sink[i] EXCEPT !.whole = TRUE]

\* the threads that are inside the log-and-shutdown sequence of _sig_handler
InSequence ==
  {t \in Threads : /\ ret[t].op \in {"segv", "sigint"}
                   /\ ret[t].res = "pending"
                   /\ pc[t] # "sig_set"}

\* C24 as stated: the fatal-signal handler of the producer threads runs its
\* log-and-shutdown sequence at most once per process; an entry that finds
\* FATAL_ERROR_IN_PROGRESS set ends the process without a record, a shutdown
\* request or a sleep.
C24_SingleShot ==
  /\ Cardinality(InSequence) <= 1
  /\ \A t \in Threads :
       (ret[t].op \in {"segv", "sigint"} /\ ret[t].res = "error") =>
         /\ proc = "exited"
         /\ pc[t] \in {"idle", "init_wait", "flush_wait"}

\* C26 as stated: when reading the clock fails while a record is built, the
\* record is still produced, with a zero timestamp, and processing goes on: a
\* producer's log call has enqueued its record when it returns.  The clock is
\* the one call of bxilog_vlog_nolevelcheck that is made to fail here.
C26_ClockFailureKeepsRecord ==
  \A t \in Threads :
    (ret[t].op = "log" /\ ret[t].res = "error") =>
      ret[t].post.seq > ret[t].pre.seq

\* the threads that are between the first and the last statement of a
\* registry call's critical section
Mutating == {t \in Threads : pc[t] \in {"reg_body", "unreg_body", "cfg_body"}}

\* C27 as stated: every mutation of the registry and of a registered logger's
\* level made by register, unregister and configure happens while the
\* mutating thread holds register_lock, so no two of them interleave.
C27_MutationsUnderLock ==
  /\ \A t \in Mutating : register_lock = t
  /\ Cardinality(Mutating) <= 1

\* thread t takes BXILOG_INITIALIZED_MUTEX in this step and runs the
\* statements of _init that follow the lock
LocksInStep(t) ==
  /\ pc[t] = "init_lock"
  /\ BXILOG_INITIALIZED_MUTEX = 0
  /\ (pc'[t] # "init_lock" \/ BXILOG_INITIALIZED_MUTEX' = t)

\* C28 as stated: every write to the lifecycle state word, in init, finalize
\* and the three fork handlers, is made by a thread that holds
\* BXILOG_INITIALIZED_MUTEX.
C28_StateWritesUnderMutex ==
  [][State' # State => \E t \in Threads : LocksInStep(t)]_vars

\* C29 as stated: a log call whose enqueue exhausted RETRIES_MAX retries logs
\* its retry-count warning through the same submission path and still
\* terminates, also while the data channel stays full: the chain of warning
\* calls has an end, so a warning call whose own enqueue exhausted the retries
\* makes no further warning call.
C29_WarningChainEnds ==
  [][\A t \in Threads :
       (pc[t] = "log_send" /\ cur[t].level = "warning" /\ cur[t].late)
         => pc'[t] # "vlog"]_vars

\* the path of the frame that was taken
PathOf(f) == CString(f.frame, 0)

\* the substring after the last '/' of a path, the whole path without one
AfterLastSlash(path) ==
  LET slashes == {i \in 1..Len(path) : path[i] = "/"}
  IN IF slashes = {} THEN path
     ELSE SubSeq(path, (CHOOSE i \in slashes : \A j \in slashes : j <= i) + 1,
                 Len(path))

\* C30 as stated: for every non-empty source path the FILE field of an output
\* line is the substring after the last '/' of the path, wherever the '/' is
\* (first character included), and the whole path when it has no '/'.
C30_FileIsBasename ==
  filename.done => filename.file = AfterLastSlash(PathOf(filename))

\* C31 as stated: after any sequence of bxilog_register and
\* bxilog_unregister calls the first REGISTERED_LOGGERS_NB slots of the array
\* are non-null and are exactly the loggers registered and not yet
\* unregistered.
C31_RegistryPrefix ==
  regHist.op \in {"register", "unregister"} =>
    /\ REGISTERED_LOGGERS_NB <= Len(REGISTERED_LOGGERS)
    /\ \A i \in 1..REGISTERED_LOGGERS_NB : REGISTERED_LOGGERS[i] # 0
    /\ {REGISTERED_LOGGERS[i] : i \in 1..REGISTERED_LOGGERS_NB} = regHist.reg

\* C39 as stated: _init releases BXILOG_INITIALIZED_MUTEX on every return
\* path, so a thread that is not inside _init never holds it and a later
\* _init can take it.
C39_MutexReleased ==
  \A t \in Threads :
    BXILOG_INITIALIZED_MUTEX = t => pc[t] = "init_lock"

\* two bxilog_init calls that both passed the entry check in the same state
\* and have both ended
BothInit(t, u) ==
  /\ t # u
  /\ ret[t].op = "init" /\ ret[u].op = "init"
  /\ ret[t].res # "pending" /\ ret[u].res # "pending"
  /\ CanInit(ret[t].pre.st) /\ ret[u].pre.st = ret[t].pre.st
  /\ ret[t].pre.iht = "none" /\ ret[u].pre.iht = "none"

\* C35 as stated: when two threads call bxilog_init concurrently from UNSET
\* (or from FINALIZED), exactly one call succeeds, the other returns
\* illegal-state, one handler thread is created and the final lifecycle state
\* is INITIALIZED.
C35_ConcurrentInit ==
  \A t, u \in Threads :
    BothInit(t, u) =>
      /\ proc = "running"
      /\ State = "INITIALIZED"
      /\ {ret[t].res, ret[u].res} = {"ok", "illegal-state"}

\* C34 as stated: after bxilog_init has returned an error the lifecycle state
\* is not left at INITIALIZING (it is UNSET, FINALIZED or ILLEGAL) and no
\* handler thread is left running.  The call is one that passed the entry
\* check; the state is the one at its return.
C34_FailedInitSettles ==
  \A t \in Threads :
    (ret[t].op = "init" /\ ret[t].res = "error") =>
      /\ ret[t].post.st \in {"UNSET", "FINALIZED", "ILLEGAL"}
      /\ ret[t].post.iht \in {"none", "exited"}

\* C33 as stated: bxilog_init eventually returns, also when the handler fails
\* during its startup and exits before it replies to ready?: a thread that
\* waits for the readiness reply does not wait forever.
C33_InitReturns ==
  \A t \in Threads :
    (pc[t] = "init_wait") ~> (pc[t] # "init_wait" \/ proc # "running")

\* C32 as stated: shutting the handler down closes only a sink descriptor the
\* handler opened itself: with sink "-" or "+" standard output and standard
\* error stay open, so records are written to that stream again after a
\* finalize followed by init.
C32_StdStreamsStayOpen ==
  FILENAME \in {"-", "+"} => closedFds = {}

\* C36 as stated: each thread's per-thread state is released exactly once:
\* after _end_iht has released it, the destructor run at thread exit does not
\* release it again and no later call of the thread sends through it.
C36_TsdReleasedOnce ==
  [][\A t \in Threads :
       /\ (pc[t] # "gone" /\ pc'[t] = "gone") => (tsd[t] # "freed" /\ ~stale[t])
       /\ (tsd[t] = "freed" /\ tsd'[t] = "freed") => seq'[t] = seq[t]]_vars

\* C37 as stated: in every reachable state, if the lifecycle state is UNSET,
\* FINALIZED or FORKED then no handler thread exists and the queue context is
\* null, and if it is INITIALIZED then the context is non-null and a handler
\* thread has been created and not yet joined.
C37_StateMatchesResources ==
  /\ State \in {"UNSET", "FINALIZED", "FORKED"} =>
       (iht = "none" /\ ~BXILOG_CONTEXT)
  /\ State = "INITIALIZED" => (iht # "none" /\ BXILOG_CONTEXT)

\* C38 as stated: bxilog_set_level accepts each of the 12 levels from panic
\* to lowest, and bxilog_get_level called afterwards on the same logger
\* returns the level that was set.
C38_SetThenGet ==
  regHist.op = "set_level" =>
    /\ proc = "running"
    /\ bxilog_get_level(regHist.cfg[1].logger) = regHist.cfg[1].level

\* C40: every line rendered by _mkmsg fits in the buffer _log_single_line
\* computed for it: the length snprintf returns is at most the size of the
\* buffer, whatever the process id, thread id, line number and source path
C40_LineFits == msg.done => msg.written <= msg.size

====
